---- MODULE Spec2Model ----
(***************************************************************************)
(* Model of the M-Bus core of the UltraLite PRO integration                *)
(* (custom_components/ultralite_pro/mbus.py): the framer find_next_frame,  *)
(* the record parser parse_long_frame and the transport driver MBusReader. *)
(* Bytes are integers 0..255; Python's 0-based index i is kept as i and    *)
(* the byte buf[i] is written buf[i + 1].                                  *)
(***************************************************************************)
EXTENDS Integers, Sequences, FiniteSets, TLC

VARIABLES
    parts,    \* framer: the collected buffer, as [pre, mid, suf] (buffer = pre \o mid \o suf)
    work,     \* framer: read_data's working buffer (mbus.py:350-352)
    frames,   \* framer: frames returned so far by find_next_frame, in order
    fdone,    \* framer: TRUE once find_next_frame returned no frame (mbus.py:353)
    pfr,      \* parser: the frame handed to parse_long_frame
    parsed,   \* parser: what parse_long_frame did with pfr
    handles,  \* reader: every serial.Serial the reader opened, as [open, parity]
    ser,      \* reader: self._serial, an index into handles, 0 for None
    primary_address, \* reader: self.primary_address
    pc,       \* reader: where read_data is suspended ("idle": no call in progress)
    rbuf,     \* reader: the bytes _read_window has collected
    ops,      \* reader: the port operations of the current (or last) read_data call
    found,    \* reader: parity of the open handle the current (or last) read_data call found, "none" if it had to connect
    result,   \* reader: how the last call ended
    calls,    \* reader: calls made on the reader so far
    cause,    \* reader: the OS error of the last open that failed, "" when the last open succeeded
    attempt,  \* coordinator: the loop variable of _fetch_data_with_retry
    cpc,      \* coordinator: "idle", "reading" (awaiting read_data) or "backoff" (asleep)
    sleeps,   \* coordinator: the backoff sleeps of the current (or last) update, in seconds
    last_exception, \* coordinator: last_exception of _fetch_data_with_retry
    update,   \* coordinator: how the last update ended
    nreads,   \* coordinator: read_data calls made by the current (or last) update
    updates,  \* coordinator: updates started so far
    pc2,      \* second task: where its read_data call on the same reader is suspended
    rbuf2,    \* second task: the buffer of its _read_window
    ops2,     \* second task: the names of the port operations of its call, in order
    result2,  \* second task: how its call ended
    at2,      \* second task: the call of the first task, and the number of that
              \* call's port operations, when the second call began
    others,   \* second task: calls started so far
    vpc,      \* validate_input: "idle", or where its reader's read_data is: "wakeup", "commands"
    vser,     \* validate_input: the handle of its own reader, 0 when it has none
    vresult,  \* validate_input: how the last validation ended
    validations, \* validate_input: validations started so far
    vdata,    \* validate_input: the address text it was given, what its read_data came to
    arg,      \* function call: the function called and its argument
    ret       \* function call: what the call gave, [done |-> FALSE] before it

fvars == <<parts, work, frames, fdone>>
pvars == <<pfr, parsed>>
rvars == <<handles, ser, primary_address, pc, rbuf, ops, found, result, calls, cause>>
cvars == <<attempt, cpc, sleeps, last_exception, update, nreads, updates>>
ovars == <<pc2, rbuf2, ops2, result2, at2, others>>
svars == <<vpc, vser, vresult, validations, vdata>>
nvars == <<arg, ret>>
evars == <<cvars, ovars, svars, nvars>>
vars == <<parts, work, frames, fdone, pfr, parsed,
          handles, ser, primary_address, pc, rbuf, ops, found, result, calls, cause,
          attempt, cpc, sleeps, last_exception, update, nreads, updates,
          pc2, rbuf2, ops2, result2, at2, others, vpc, vser, vresult, validations, vdata,
          arg, ret>>

\* a reader that is constructed and never used
ReaderUnused ==
    /\ handles = <<>> /\ ser = 0 /\ primary_address = 254 /\ pc = "idle" /\ rbuf = <<>>
    /\ ops = <<>> /\ found = "none" /\ result = [kind |-> "none"] /\ calls = 0
    /\ cause = ""

\* a coordinator that has not updated yet
CoordinatorUnused ==
    /\ attempt = 0 /\ cpc = "idle" /\ sleeps = <<>> /\ last_exception = [kind |-> "none"]
    /\ update = [kind |-> "none"] /\ nreads = 0 /\ updates = 0
    /\ pc2 = "idle" /\ rbuf2 = <<>> /\ ops2 = <<>> /\ result2 = [kind |-> "none"]
    /\ at2 = [call |-> 0, len |-> 0] /\ others = 0
    /\ vpc = "idle" /\ vser = 0 /\ vresult = [kind |-> "none"] /\ validations = 0
    /\ vdata = [address |-> <<>>, read |-> [kind |-> "none"]]

\* no function has been called
FnUnused == arg = [fn |-> "none"] /\ ret = [done |-> FALSE]

\* ------------------------------------------------------------------ bounds
MaxPrefix == 2
MaxSuffix == 1
MaxRecs == 2
MaxCalls == 2
MaxWakeWrites == 2
MaxReads == 2

\* ------------------------------------------------------- protocol constants
ACK == 229         \* 0xE5
SHORT_START == 16  \* 0x10
LONG_START == 104  \* 0x68
STOP == 22         \* 0x16
MIN_LONG_LEN == 9

\* ------------------------------------------------------------ byte helpers
RECURSIVE SumBytes(_)
SumBytes(s) == IF s = <<>> THEN 0 ELSE Head(s) + SumBytes(Tail(s))

\* Python slice s[a:b] (0-based, end exclusive, clipped to the sequence)
Slice(s, a, b) ==
    LET hi == IF b > Len(s) THEN Len(s) ELSE b
    IN  IF a >= hi THEN <<>> ELSE SubSeq(s, a + 1, hi)

SeqsUpTo(S, n) == UNION { [1..k -> S] : k \in 0..n }

\* ------------------------------------------------------- mbus_checksum_ok
MbusChecksumOkNoSum(fr) ==
    /\ ~(Len(fr) < MIN_LONG_LEN \/ fr[1] # LONG_START \/ fr[4] # LONG_START
            \/ fr[Len(fr)] # STOP)
    /\ fr[3] = fr[2]
    /\ Len(fr) = 6 + fr[2]

MbusChecksumOk(fr) ==
    /\ ~(Len(fr) < MIN_LONG_LEN \/ fr[1] # LONG_START \/ fr[4] # LONG_START
            \/ fr[Len(fr)] # STOP)
    /\ fr[3] = fr[2]
    /\ Len(fr) = 6 + fr[2]
    /\ (SumBytes(Slice(fr, 4, 4 + fr[2])) % 256) = fr[4 + fr[2] + 1]

\* -------------------------------------------------------- find_next_frame
\* a variant that gives up the bytes it scanned
NoFrameDropsAll(b) == [found |-> FALSE, fr |-> <<>>, rest |-> <<>>]
NoFrame(b) == [found |-> FALSE, fr |-> <<>>, rest |-> b]
\* a variant whose remainder starts right after the frame's first byte
FoundSkipsOneByte(b, i, len) ==
    [found |-> TRUE, fr |-> Slice(b, i, i + len), rest |-> Slice(b, i + 1, Len(b))]
Found(b, i, len) ==
    [found |-> TRUE, fr |-> Slice(b, i, i + len), rest |-> Slice(b, i + len, Len(b))]

AckAt(b, i) == b[i + 1] = ACK

ShortAtOffByOne(b, i) ==
    /\ b[i + 1] = SHORT_START
    /\ i + 5 < Len(b)
    /\ LET fr == Slice(b, i, i + 5)
       IN  fr[5] = STOP /\ ((fr[2] + fr[3]) % 256) = fr[4]

ShortAt(b, i) ==
    /\ b[i + 1] = SHORT_START
    /\ i + 5 <= Len(b)
    /\ LET fr == Slice(b, i, i + 5)
       IN  fr[5] = STOP /\ ((fr[2] + fr[3]) % 256) = fr[4]

LongAtOffByOne(b, i) ==
    /\ b[i + 1] = LONG_START
    /\ i + 6 <= Len(b)
    /\ LET L == b[i + 2]
       IN  /\ i + 6 + L < Len(b)
           /\ b[i + 3] = L
           /\ b[i + 4] = LONG_START
           /\ LET fr == Slice(b, i, i + 6 + L)
              IN  fr[Len(fr)] = STOP /\ MbusChecksumOk(fr)

LongAt(b, i) ==
    /\ b[i + 1] = LONG_START
    /\ i + 6 <= Len(b)
    /\ LET L == b[i + 2]
       IN  /\ i + 6 + L <= Len(b)
           /\ b[i + 3] = L
           /\ b[i + 4] = LONG_START
           /\ LET fr == Slice(b, i, i + 6 + L)
              IN  fr[Len(fr)] = STOP /\ MbusChecksumOk(fr)

\* a framer that only looks at position i and never scans forward
FindFromNoResync(b, i) ==
    IF ~(i < Len(b)) THEN NoFrame(b)
    ELSE IF AckAt(b, i) THEN Found(b, i, 1)
    ELSE IF ShortAt(b, i) THEN Found(b, i, 5)
    ELSE IF LongAt(b, i) THEN Found(b, i, 6 + b[i + 2])
    ELSE NoFrame(b)

RECURSIVE FindFrom(_, _)
FindFrom(b, i) ==
    IF ~(i < Len(b)) THEN NoFrame(b)
    ELSE IF AckAt(b, i) THEN Found(b, i, 1)
    ELSE IF ShortAt(b, i) THEN Found(b, i, 5)
    ELSE IF LongAt(b, i) THEN Found(b, i, 6 + b[i + 2])
    ELSE FindFrom(b, i + 1)

find_next_frame(b) == FindFrom(b, 0)


\* ----------------------------------------------------------- decode_bcd_le
RECURSIVE BcdDigits(_)
BcdDigits(data) ==
    IF data = <<>> THEN <<>>
    ELSE LET x == Head(data)
             lo == x % 16
             hi == (x \div 16) % 16
         IN  (IF lo <= 9 THEN <<lo>> ELSE <<>>) \o (IF hi <= 9 THEN <<hi>> ELSE <<>>)
                \o BcdDigits(Tail(data))

\* int("".join(reversed(digits))): the first digit collected is the least significant
RECURSIVE DigitsValue(_)
DigitsValue(ds) == IF ds = <<>> THEN 0 ELSE Head(ds) + 10 * DigitsValue(Tail(ds))

decode_bcd_le(data) == DigitsValue(BcdDigits(data))

Reverse(s) == [i \in 1..Len(s) |-> s[Len(s) + 1 - i]]

\* int(text) of a digit text: leading zeros do not count
RECURSIVE StripZeros(_)
StripZeros(ds) == IF Len(ds) > 1 /\ Head(ds) = 0 THEN StripZeros(Tail(ds)) ELSE ds

\* a variant that reads the digits in the order collected
BcdDecimalForward(data) ==
    IF BcdDigits(data) = <<>> THEN <<0>> ELSE StripZeros(BcdDigits(data))
\* the integer decode_bcd_le returns, as its decimal digits, most significant
\* first: a Python int has no width, so twelve digits are kept exactly
BcdDecimal(data) ==
    IF BcdDigits(data) = <<>> THEN <<0>> ELSE StripZeros(Reverse(BcdDigits(data)))

\* int.from_bytes(raw, "little")
RECURSIVE IntLE(_)
IntLE(raw) == IF raw = <<>> THEN 0 ELSE Head(raw) + 256 * IntLE(Tail(raw))

\* ------------------------------------------------------ man_code_from_word
\* a variant that emits the field of bits 4..0 first
man_code_low_first(w) ==
    LET c1 == ((w \div 1024) % 32) + 64
        c2 == ((w \div 32) % 32) + 64
        c3 == (w % 32) + 64
        ch(c) == IF 65 <= c /\ c <= 90 THEN c ELSE 63
    IN  <<ch(c3), ch(c2), ch(c1)>>
\* the three characters as ASCII codes; 63 is '?'
man_code_from_word(w) ==
    LET c1 == ((w \div 1024) % 32) + 64
        c2 == ((w \div 32) % 32) + 64
        c3 == (w % 32) + 64
        ch(c) == IF 65 <= c /\ c <= 90 THEN c ELSE 63
    IN  <<ch(c1), ch(c2), ch(c3)>>

\* -------------------------------------------------------- parse_long_frame
NoValue == [kind |-> "none"]
IntValue(n) == [kind |-> "int", v |-> n]
\* a 32-bit float, kept as its IEEE-754 bit pattern
FloatValue(raw) == [kind |-> "float", bits |-> IntLE(raw)]
BytesValue(raw) == [kind |-> "bytes", v |-> raw]

HEADER_LEN == 12

IsSpecialDif(DIF) == DIF \in {15, 31, 47}

\* the DIFE loop (mbus.py:112-117) and the VIFE loop (mbus.py:125-130):
\* while the chain continues and bytes remain, read one byte; stop after
\* the first byte with bit 7 clear
RECURSIVE Chain(_, _, _)
Chain(rb, i, acc) ==
    IF i < Len(rb)
    THEN LET d == rb[i + 1]
         IN  IF d >= 128 THEN Chain(rb, i + 1, Append(acc, d))
             ELSE [i |-> i + 1, ext |-> Append(acc, d)]
    ELSE [i |-> i, ext |-> acc]

ChainAfter(rb, i, first) ==
    IF first >= 128 THEN Chain(rb, i, <<>>) ELSE [i |-> i, ext |-> <<>>]

IntSizeWrong(dl) == CASE dl = 1 -> 1 [] dl = 2 -> 2 [] dl = 3 -> 3 [] dl = 4 -> 4
                      [] dl = 6 -> 6 [] dl = 7 -> 7
IntSize(dl) == CASE dl = 1 -> 1 [] dl = 2 -> 2 [] dl = 3 -> 3 [] dl = 4 -> 4
                 [] dl = 6 -> 6 [] dl = 7 -> 8
BcdSize(dl) == CASE dl = 9 -> 1 [] dl = 10 -> 2 [] dl = 11 -> 3 [] dl = 12 -> 4
                 [] dl = 14 -> 6

Unread(i) == [i |-> i, raw |-> <<>>, value |-> NoValue]

\* a fixed-size read that keeps the cursor where it was
ReadFixedNoAdvance(rb, i, size, kind) ==
    IF i + size <= Len(rb)
    THEN LET raw == Slice(rb, i, i + size)
         IN  [i |-> i, raw |-> raw,
              value |-> CASE kind = "int" -> IntValue(IntLE(raw))
                          [] kind = "float" -> FloatValue(raw)
                          [] kind = "bcd" -> IntValue(decode_bcd_le(raw))]
    ELSE Unread(i)

\* if i + size <= len(recs_bytes): raw = recs_bytes[i:i+size]; i += size; value = ...
ReadFixed(rb, i, size, kind) ==
    IF i + size <= Len(rb)
    THEN LET raw == Slice(rb, i, i + size)
         IN  [i |-> i + size, raw |-> raw,
              value |-> CASE kind = "int" -> IntValue(IntLE(raw))
                          [] kind = "float" -> FloatValue(raw)
                          [] kind = "bcd" -> IntValue(decode_bcd_le(raw))]
    ELSE Unread(i)

ReadLvar(rb, i) ==
    IF i < Len(rb)
    THEN LET LVAR == rb[i + 1]
         IN  IF i + 1 + LVAR <= Len(rb)
             THEN [i |-> i + 1 + LVAR, raw |-> Slice(rb, i + 1, i + 1 + LVAR),
                   value |-> BytesValue(Slice(rb, i + 1, i + 1 + LVAR))]
             ELSE Unread(i + 1)
    ELSE Unread(i)

ReadData(rb, i, dl) ==
    IF dl \in {1, 2, 3, 4, 6, 7} THEN ReadFixed(rb, i, IntSize(dl), "int")
    ELSE IF dl = 5 THEN ReadFixed(rb, i, 4, "float")
    ELSE IF dl \in {9, 10, 11, 12, 14} THEN ReadFixed(rb, i, BcdSize(dl), "bcd")
    ELSE IF dl = 13 THEN ReadLvar(rb, i)
    ELSE Unread(i)

\* a parser without the check of mbus.py:118-119
BreakAfterDifesNever(rb, i) == FALSE

\* if i >= len(recs_bytes): break
BreakAfterDifes(rb, i) == i >= Len(rb)

\* one iteration of the record loop, entered with i < len(recs_bytes).
\* raised: an index past the end was read (Python raises IndexError)
ParseOne(rb, i) ==
    LET DIF == rb[i + 1]
        none == [ofs |-> i, special |-> DIF]
    IN  IF IsSpecialDif(DIF)
        THEN [emit |-> TRUE, raised |-> FALSE, next |-> i + 1,
              rec |-> [ofs |-> i, special |-> DIF]]
        ELSE LET dc == ChainAfter(rb, i + 1, DIF)
             IN  IF BreakAfterDifes(rb, dc.i)
                 THEN [emit |-> FALSE, raised |-> FALSE, next |-> dc.i, rec |-> none]
                 ELSE IF ~(dc.i < Len(rb))
                 THEN [emit |-> FALSE, raised |-> TRUE, next |-> dc.i, rec |-> none]
                 ELSE LET VIF == rb[dc.i + 1]
                          vc == ChainAfter(rb, dc.i + 1, VIF)
                          d == ReadData(rb, vc.i, DIF % 16)
                      IN  [emit |-> TRUE, raised |-> FALSE, next |-> d.i,
                           rec |-> [ofs |-> i, DIF |-> DIF, VIF |-> VIF,
                                    DIFEs |-> dc.ext, VIFEs |-> vc.ext,
                                    raw |-> d.raw, value |-> d.value]]

RECURSIVE ParseLoop(_, _, _)
ParseLoop(rb, i, recs) ==
    IF ~(i < Len(rb)) THEN [records |-> recs, raised |-> FALSE]
    ELSE LET o == ParseOne(rb, i)
         IN  IF o.raised THEN [records |-> recs, raised |-> TRUE]
             ELSE IF ~o.emit THEN [records |-> recs, raised |-> FALSE]
             ELSE ParseLoop(rb, o.next, Append(recs, o.rec))

HasFixedStrict(data) == Len(data) > HEADER_LEN

\* if len(data) >= 12
HasFixed(data) == Len(data) >= HEADER_LEN

FixedHeader(data) ==
    [id |-> decode_bcd_le(Slice(data, 0, 4)),
     manufacturer |-> man_code_from_word(IntLE(Slice(data, 4, 6))),
     version |-> data[7], medium |-> data[8], access_no |-> data[9],
     status |-> data[10], signature |-> IntLE(Slice(data, 10, 12))]

\* fixed is <<>> for Python's {} and <<header>> otherwise
parse_long_frame(fr) ==
    LET L == fr[2]
        data == Slice(fr, 7, 7 + (L - 3))
        fixed == IF HasFixed(data) THEN <<FixedHeader(data)>> ELSE <<>>
        recs_bytes == IF HasFixed(data) THEN Slice(data, 12, Len(data)) ELSE data
        out == ParseLoop(recs_bytes, 0, <<>>)
    IN  [done |-> TRUE, raised |-> out.raised, ctrl |-> fr[5], addr |-> fr[6],
         ci |-> fr[7], fixed |-> fixed, records |-> out.records]

NotParsed == [done |-> FALSE]

\* ----------------------------------------------------- framer input space
PrefixBytes == {0, 16, 104, 229, 255}
SuffixBytes == {22, 170}

ShortBytes(c, a, cs, stop) == <<SHORT_START, c, a, cs, stop>>
LongBytes(l1, l2, s2, body, cs, stop) ==
    <<LONG_START, l1, l2, s2>> \o body \o <<cs, stop>>

\* a variant whose checksum is not reduced to one byte
short_frame_unmasked(ctrl, addr) == <<16, ctrl, addr, ctrl + addr, 22>>
short_frame(ctrl, addr) == <<16, ctrl, addr, (ctrl + addr) % 256, 22>>
LongFrame(body) ==
    LongBytes(Len(body), Len(body), LONG_START, body, SumBytes(body) % 256, STOP)

SampleBodies == { <<8, 254, 114>>, <<8, 254, 114, 15>> }

WellFormed ==
    { <<ACK>> }
    \cup { short_frame(c, a) : c \in {16, 64}, a \in {22, 254} }
    \cup { LongFrame(body) : body \in SampleBodies }

\* candidates that start like a frame and fail one check, or are cut short
IllFormed ==
    { <<>>,
      ShortBytes(64, 254, 63, 22),          \* short, checksum off by one
      ShortBytes(64, 254, 62, 23),          \* short, wrong stop byte
      <<16, 64, 254, 62>>,                  \* short, cut before the stop byte
      LongBytes(3, 3, 104, <<8, 254, 114>>, 121, 22),   \* long, checksum off by one
      LongBytes(3, 3, 104, <<8, 254, 114>>, 120, 23),   \* long, wrong stop byte
      LongBytes(3, 4, 104, <<8, 254, 114>>, 120, 22),   \* long, length bytes differ
      LongBytes(3, 3, 103, <<8, 254, 114>>, 120, 22),   \* long, second start missing
      <<104, 3, 3, 104, 8, 254, 114, 120>>,             \* long, cut before the stop byte
      LongBytes(0, 0, 104, <<>>, 0, 22),                \* L = 0: no C, A, CI
      LongBytes(2, 2, 104, <<8, 254>>, 6, 22) }         \* L = 2: no CI

Candidates == WellFormed \cup IllFormed

\* ------------------------------------------------------------ framer spec
FrameInit ==
    \E pre \in SeqsUpTo(PrefixBytes, MaxPrefix), mid \in Candidates,
       suf \in SeqsUpTo(SuffixBytes, MaxSuffix) :
        /\ parts = [pre |-> pre, mid |-> mid, suf |-> suf]
        /\ work = pre \o mid \o suf
        /\ frames = <<>>
        /\ fdone = FALSE
        /\ pfr = <<>>
        /\ parsed = NotParsed
        /\ ReaderUnused
        /\ CoordinatorUnused
        /\ FnUnused

\* one iteration of read_data's loop that gets a frame (mbus.py:351-352)
ScanFrame ==
    /\ ~fdone
    /\ LET r == find_next_frame(work)
       IN  /\ r.found
           /\ frames' = Append(frames, r.fr)
           /\ work' = r.rest
    /\ UNCHANGED <<parts, fdone, pvars, rvars, evars>>

\* the iteration in which find_next_frame returns no frame (mbus.py:353-354)
ScanEnd ==
    /\ ~fdone
    /\ LET r == find_next_frame(work)
       IN  /\ ~r.found
           /\ work' = r.rest
    /\ fdone' = TRUE
    /\ UNCHANGED <<parts, frames, pvars, rvars, evars>>

FrameNext == ScanFrame \/ ScanEnd

SpecFrame == FrameInit /\ [][FrameNext]_vars

\* the loop is straight-line code between two awaits of read_data: once
\* entered, its next iteration is always taken
SpecFrameRuns == FrameInit /\ [][FrameNext]_vars /\ WF_vars(FrameNext)

\* ----------------------------------------------------- parser input space
\* data bytes of the sample records: the first n bytes of this pattern
DataPattern == <<1, 6, 42, 0, 0, 0, 0, 0>>
Data(n) == SubSeq(DataPattern, 1, n)

\* sample records: one per data shape of the DIF low nibble, the special
\* DIFs, and DIFE / VIFE chains
SampleRecords ==
    { <<15>>, <<47>>,                        \* special DIFs 0x0F, 0x2F
      <<0, 6>>,                              \* dl 0: no data
      <<1, 6>> \o Data(1),                   \* dl 1..4, 6, 7: unsigned
      <<2, 59>> \o Data(2),
      <<3, 6>> \o Data(3),
      <<4, 120>> \o Data(4),
      <<6, 6>> \o Data(6),
      <<7, 6>> \o Data(8),
      <<5, 6>> \o Data(4),                   \* dl 5: float
      <<8, 6>>,                              \* dl 8: no data
      <<9, 6>> \o Data(1),                   \* dl 9, A, B, C, E: BCD
      <<10, 6>> \o Data(2),
      <<11, 6>> \o Data(3),
      <<12, 20>> \o <<82, 99, 1, 34>>,
      <<14, 6>> \o Data(6),
      <<13, 6, 2>> \o Data(2),               \* dl D: LVAR of 2 bytes
      <<13, 6, 0>>,                          \* dl D: LVAR of 0 bytes
      <<63, 6>>,                             \* dl F, not special (DIF 0x3F)
      <<132, 64, 6>> \o Data(4),             \* DIF 0x84 with one DIFE
      <<1, 253, 14>> \o Data(1),             \* VIF 0xFD with one VIFE
      <<130, 128, 0, 253, 142, 14>> \o Data(2) }   \* chains of two

SampleHeader == <<82, 99, 1, 34, 180, 77, 23, 4, 51, 0, 0, 0>>

RECURSIVE RecordRuns(_)
RecordRuns(n) ==
    IF n = 0 THEN { <<>> }
    ELSE RecordRuns(n - 1)
            \cup { s \o r : s \in RecordRuns(n - 1), r \in SampleRecords }

\* up to MaxRecs sample records, the last one cut at any byte
Streams ==
    UNION { { s \o SubSeq(r, 1, k) : k \in 0..Len(r) } :
                s \in RecordRuns(MaxRecs - 1), r \in SampleRecords }

\* payloads: record bytes alone when shorter than a header, and the sample
\* header followed by record bytes
Payloads ==
    { st \in Streams : Len(st) < Len(SampleHeader) }
        \cup { SampleHeader \o st : st \in Streams }

\* C, A, CI of the sample frames
SampleCtrl == <<8, 254, 114>>

\* ------------------------------------------------------------ parser spec
ParseInit ==
    \E payload \in Payloads :
        /\ pfr = LongFrame(SampleCtrl \o payload)
        /\ parsed = NotParsed
        /\ parts = [pre |-> <<>>, mid |-> <<>>, suf |-> <<>>]
        /\ work = <<>>
        /\ frames = <<>>
        /\ fdone = TRUE
        /\ ReaderUnused
        /\ CoordinatorUnused
        /\ FnUnused

\* read_data hands a frame accepted by mbus_checksum_ok to parse_long_frame
\* (mbus.py:355-356)
ParseFrame ==
    /\ ~parsed.done
    /\ pfr[1] = LONG_START /\ MbusChecksumOk(pfr)
    /\ parsed' = parse_long_frame(pfr)
    /\ UNCHANGED <<pfr, fvars, rvars, evars>>

ParseNext == ParseFrame

SpecParse == ParseInit /\ [][ParseNext]_vars

\* ----------------------------------------------------------- record_to_human
\* a table in which the range rows come first
VifNameRanges(VIF) ==
    CASE VIF \in 16..23 -> "energy_total_J"
      [] VIF \in 32..39 -> "volume_total"
      [] VIF = 6 -> "energy_total"
      [] OTHER -> ""
\* the name of the quantity a record maps to, "" when record_to_human returns
\* None. The transforms of the mapped values are not part of this operator.
VifName(VIF) ==
    CASE VIF = 6 -> "energy_total"
      [] VIF = 20 -> "volume_total"
      [] VIF = 39 -> "operating_time_days"
      [] VIF \in 56..63 -> "volume_flow"
      [] VIF = 90 -> "flow_temperature"
      [] VIF = 94 -> "return_temperature"
      [] VIF = 97 -> "delta_temperature"
      [] VIF = 109 -> "time_point"
      [] VIF = 120 -> "serial_number"
      [] OTHER -> ""
VifExtName(vife) ==
    CASE vife = 14 -> "firmware_version"
      [] vife = 15 -> "software_version"
      [] vife = 8 -> "access_number"
      [] vife = 9 -> "medium_code"
      [] OTHER -> ""
\* a variant that looks the first VIFE up without masking bit 7
MappedNameUnmasked(r) ==
    IF "special" \in DOMAIN r THEN ""
    ELSE IF r.value = NoValue THEN ""
    ELSE IF r.VIF = 253 /\ r.VIFEs # <<>> THEN VifExtName(r.VIFEs[1])
    ELSE VifName(r.VIF)
MappedName(r) ==
    IF "special" \in DOMAIN r THEN ""
    ELSE IF r.value = NoValue THEN ""
    ELSE IF r.VIF = 253 /\ r.VIFEs # <<>> THEN VifExtName(r.VIFEs[1] % 128)
    ELSE VifName(r.VIF)

\* the names whose transform goes through int(v); the others but time_point
\* go through float(v), and _ts catches every exception
INT_NAMES == {"operating_time_days", "serial_number", "firmware_version",
              "software_version", "access_number", "medium_code"}

\* int(b) and float(b) of a bytes value read it as text. Decimal digits are
\* accepted; the empty string and bytes outside ASCII text are rejected
\* (signs, blanks and decimal points do not occur in the values used here).
IsDigitText(raw) == raw # <<>> /\ \A k \in 1..Len(raw) : raw[k] \in 48..57

\* IEEE-754 single: all exponent bits set is inf (mantissa 0) or nan
IsNonFinite(bits) == (bits \div 8388608) % 256 = 255
IsNan(bits) == IsNonFinite(bits) /\ bits % 8388608 # 0

\* a mapper whose transforms accept every value
MapErrorNever(r) == ""

\* the exception record_to_human raises on r, "" when it returns
MapError(r) ==
    LET name == MappedName(r)
    IN  IF name \in {"", "time_point"} THEN ""
        ELSE CASE r.value.kind = "int" -> ""
               [] r.value.kind = "float" ->
                    IF name \in INT_NAMES /\ IsNonFinite(r.value.bits)
                    THEN (IF IsNan(r.value.bits) THEN "ValueError" ELSE "OverflowError")
                    ELSE ""
               [] r.value.kind = "bytes" ->
                    IF IsDigitText(r.value.v) THEN "" ELSE "ValueError"

\* the unit of a mapped quantity, "" for None ("m3" is the cubic metre, "degC"
\* the degree Celsius)
Unit(name) ==
    CASE name = "energy_total" -> "kWh"
      [] name = "volume_total" -> "m3"
      [] name = "operating_time_days" -> "days"
      [] name = "volume_flow" -> "m3/h"
      [] name \in {"flow_temperature", "return_temperature"} -> "degC"
      [] name = "delta_temperature" -> "K"
      [] OTHER -> ""

\* the text of a bytes value as a number: int(b"42") = 42
RECURSIVE TextInt(_)
TextInt(raw) ==
    IF raw = <<>> THEN 0 ELSE 10 * TextInt(SubSeq(raw, 1, Len(raw) - 1)) + (raw[Len(raw)] - 48)

\* float(v) * 10^e: the value scaled, kept as the number and the decimal
\* exponent (the float product is the nearest double to it)
Scaled(v, e) ==
    [kind |-> "scaled", e |-> e,
     of |-> IF v.kind = "bytes" THEN IntValue(TextInt(v.v)) ELSE v]

\* int(v): an integer as it is, digit text as its number, a float truncated
Whole(v) ==
    CASE v.kind = "int" -> v
      [] v.kind = "bytes" -> IntValue(TextInt(v.v))
      [] v.kind = "float" -> [kind |-> "trunc", bits |-> v.bits]

\* str(n): the decimal digits of n >= 0 as ASCII codes, most significant first
RECURSIVE Str(_)
Str(n) == IF n < 10 THEN <<48 + n>> ELSE Str(n \div 10) \o <<48 + (n % 10)>>

\* a variant that pads nothing
ZfillNone(t, w) == t
\* s.zfill(w): zeros on the left up to width w, a longer s unchanged
Zfill(t, w) == IF Len(t) >= w THEN t ELSE [k \in 1..(w - Len(t)) |-> 48] \o t

\* str(int(v)).zfill(8)
SerialText(v) ==
    IF Whole(v).kind = "int"
    THEN [kind |-> "str", chars |-> Zfill(Str(Whole(v).v), 8)]
    ELSE [kind |-> "str_of", v |-> Whole(v)]

\* _ts(v): the ISO time of int(v) seconds, None when anything raises (for
\* an integer below 2^31 nothing does)
Ts(v) ==
    IF v.kind = "bytes" /\ ~IsDigitText(v.v) THEN NoValue
    ELSE IF v.kind = "float" /\ IsNonFinite(v.bits) THEN NoValue
    ELSE [kind |-> "iso", secs |-> Whole(v)]

\* a variant whose flow scale is 10^-3 whatever the VIF
TransformFixedFlow(VIF, name, v) ==
    CASE name = "energy_total" -> Scaled(v, 0)
      [] name = "volume_total" -> Scaled(v, -2)
      [] name = "volume_flow" -> Scaled(v, -3)
      [] name \in {"flow_temperature", "return_temperature"} -> Scaled(v, -1)
      [] name = "delta_temperature" -> Scaled(v, -2)
      [] name = "time_point" -> Ts(v)
      [] name = "serial_number" -> SerialText(v)
      [] OTHER -> Whole(v)
\* the transform of the row of name, applied to the record's value
Transform(VIF, name, v) ==
    CASE name = "energy_total" -> Scaled(v, 0)
      [] name = "volume_total" -> Scaled(v, -2)
      [] name = "volume_flow" -> Scaled(v, (VIF % 8) - 6)
      [] name \in {"flow_temperature", "return_temperature"} -> Scaled(v, -1)
      [] name = "delta_temperature" -> Scaled(v, -2)
      [] name = "time_point" -> Ts(v)
      [] name = "serial_number" -> SerialText(v)
      [] OTHER -> Whole(v)

\* record_to_human: None, the exception it raises, or (name, value, unit)
record_to_human(r) ==
    IF MappedName(r) = "" THEN [kind |-> "none"]
    ELSE IF MapError(r) # "" THEN [kind |-> "raised", type |-> MapError(r)]
    ELSE [kind |-> "triple", name |-> MappedName(r),
          value |-> Transform(r.VIF, MappedName(r), r.value),
          unit |-> Unit(MappedName(r))]

\* ------------------------------------------------------------- MBusReader
\* serial.Serial(usb_path, baudrate=2400, ..., parity=PARITY_NONE, ...)
NewHandle == [open |-> TRUE, parity |-> "N"]

\* a port operation, with the parity the handle has when it happens
Op(name, data, h) == [op |-> name, data |-> data, parity |-> h.parity]

WAKE_CHUNK_LEN == 32
WakeChunk == [k \in 1..WAKE_CHUNK_LEN |-> 85]
SND_NKE_C == 64
REQ_UD2_C == 123

\* a wakeup that leaves the parity as it finds it
WakeupSetupKeepsParity(h) == h

\* _send_wakeup_8n1, up to its first write: parity NONE
WakeupSetup(h) == [h EXCEPT !.parity = "N"]

\* _send_cmds_8e1, up to its first write: parity EVEN
CmdsSetup(h) == [h EXCEPT !.parity = "E"]

\* if not self._serial or not self._serial.is_open
NeedsConnect == IF ser = 0 THEN TRUE ELSE ~handles[ser].open

ClosedLeavesOpen(hs, s) == hs
\* disconnect(): close the handle if it is open, drop the reference
Closed(hs, s) == IF s # 0 /\ hs[s].open THEN [hs EXCEPT ![s].open = FALSE] ELSE hs

Pending == [kind |-> "pending"]
Raised(type, msg) == [kind |-> "raised", type |-> type, msg |-> msg]
Returned(keys) == [kind |-> "returned", keys |-> keys]

\* Messages are sequences of phrases, so that `"..." in str(e)` is a search
\* for a phrase. The phrases of the OS errors:
EACCES == "Permission denied"
ENOENT == "No such file or directory"
EIO == "Input/output error"
EBUSY == "Device or resource busy"
OsErrors == {EACCES, ENOENT, EIO}
OpenErrors == {EACCES, ENOENT, EBUSY}

MSG_CANNOT_CONNECT == <<"Cannot connect to device">>
MSG_NO_VALID_DATA == <<"No valid data", "received from meter">>
MSG_CONVERT == <<"could not convert">>

\* what the serial call pending at pc p raises when the OS reports e: the
\* port's write, read and reconfiguration wrap it in a SerialException, drain
\* (flush) lets termios.error through
IoError(p, e) ==
    CASE p \in {"wake_write", "nke_write", "req_write"} ->
            [kind |-> "raised", type |-> "SerialException", msg |-> <<"write failed:", e>>]
      [] p \in {"wake_flush", "nke_flush", "req_flush"} ->
            [kind |-> "raised", type |-> "termios.error", msg |-> <<e>>]
      [] p = "collect" ->
            [kind |-> "raised", type |-> "SerialException", msg |-> <<"read failed:", e>>]
      [] p = "settle" ->
            [kind |-> "raised", type |-> "SerialException",
             msg |-> <<"Could not configure port:", e>>]

\* the keys read_data puts into values for one parsed Long frame
FIXED_KEYS == {"device_id", "manufacturer", "version", "medium", "access_no", "status"}
\* a frame loop that adds no header field
FrameKeysNoFixed(p) == { MappedName(p.records[k]) : k \in 1..Len(p.records) } \ {""}

FrameKeys(p) ==
    (IF p.fixed # <<>> THEN FIXED_KEYS ELSE {})
        \cup ({ MappedName(p.records[k]) : k \in 1..Len(p.records) } \ {""})

\* the first exception the record loop of read_data meets in recs, "" if none
RECURSIVE FirstError(_, _)
FirstError(recs, k) ==
    IF k > Len(recs) THEN ""
    ELSE LET e == MapError(recs[k])
         IN  IF e # "" THEN e ELSE FirstError(recs, k + 1)

\* what one parsed Long frame gives the frame loop: the keys it sets, and the
\* exception its record loop raises ("" when none)
FrameOutcome(p) ==
    [keys |-> FrameKeys(p),
     error |-> IF p.raised THEN "IndexError" ELSE FirstError(p.records, 1)]

\* the frame loop of read_data over the collected buffer: the keys of values,
\* and the exception that ended the loop ("" when it ran to its break)
RECURSIVE CollectKeys(_, _)
AfterFrame(o, rest, keys) ==
    IF o.error # "" THEN [keys |-> keys, error |-> o.error]
    ELSE CollectKeys(rest, keys \cup o.keys)

CollectKeys(w, keys) ==
    LET r == find_next_frame(w)
    IN  IF ~r.found THEN [keys |-> keys, error |-> ""]
        ELSE IF r.fr[1] = LONG_START /\ MbusChecksumOk(r.fr)
        THEN AfterFrame(FrameOutcome(parse_long_frame(r.fr)), r.rest, keys)
        ELSE CollectKeys(r.rest, keys)

\* the derive step: thermal_power when flow and delta T are both there
Derived(keys) ==
    IF "volume_flow" \in keys /\ "delta_temperature" \in keys
    THEN keys \cup {"thermal_power"} ELSE keys

\* ---- the same loop with the values it stores
\* values is a function from the keys to what is stored under them: a scalar
\* for a header field, {value, unit} for a mapped record
Scalar(x) == [scalar |-> x]
Entry(v, u) == [value |-> v, unit |-> u]

\* a variant that keeps what a key already holds
PutKeep(m, k, e) == [x \in DOMAIN m \cup {k} |-> IF x \in DOMAIN m THEN m[x] ELSE e]
\* values[k] = e
Put(m, k, e) == [x \in DOMAIN m \cup {k} |-> IF x = k THEN e ELSE m[x]]

\* a variant that stores the header under the names parse_long_frame gives it
WithFixedRawNames(m, fixed) ==
    IF fixed = <<>> THEN m
    ELSE Put(Put(Put(Put(Put(Put(m,
            "id", Scalar(fixed[1].id)),
            "manufacturer", Scalar(fixed[1].manufacturer)),
            "version", Scalar(fixed[1].version)),
            "medium", Scalar(fixed[1].medium)),
            "access_no", Scalar(fixed[1].access_no)),
            "status", Scalar(fixed[1].status))
\* if fixed: the six header fields
WithFixed(m, fixed) ==
    IF fixed = <<>> THEN m
    ELSE Put(Put(Put(Put(Put(Put(m,
            "device_id", Scalar(fixed[1].id)),
            "manufacturer", Scalar(fixed[1].manufacturer)),
            "version", Scalar(fixed[1].version)),
            "medium", Scalar(fixed[1].medium)),
            "access_no", Scalar(fixed[1].access_no)),
            "status", Scalar(fixed[1].status))

\* for r in parsed["records"]: a mapped record is stored under its name (a
\* record on which the mapper raises ends the loop, see FirstError)
RECURSIVE WithRecords(_, _, _)
WithRecords(m, recs, k) ==
    IF k > Len(recs) THEN m
    ELSE LET h == record_to_human(recs[k])
         IN  WithRecords(IF h.kind = "triple"
                         THEN Put(m, h.name, Entry(h.value, h.unit)) ELSE m,
                         recs, k + 1)

RECURSIVE CollectValues(_, _)
AfterFrameValues(p, rest, m) ==
    IF FrameOutcome(p).error # "" THEN [values |-> m, error |-> FrameOutcome(p).error]
    ELSE CollectValues(rest, WithRecords(WithFixed(m, p.fixed), p.records, 1))

CollectValues(w, m) ==
    LET r == find_next_frame(w)
    IN  IF ~r.found THEN [values |-> m, error |-> ""]
        ELSE IF r.fr[1] = LONG_START /\ MbusChecksumOk(r.fr)
        THEN AfterFrameValues(parse_long_frame(r.fr), r.rest, m)
        ELSE CollectValues(r.rest, m)

\* a variant without the factor 1.163
PowerUnscaled(f, d) ==
    IF f.of.kind = "int" /\ d.of.kind = "int"
    THEN [kind |-> "scaled", e |-> f.e + d.e, of |-> IntValue(f.of.v * d.of.v)]
    ELSE [kind |-> "product", e |-> 0, of |-> <<f, d>>]
\* 1.163 * flow * dT of two scaled values: 1163 x 10^-3 times both; the
\* product of integers is computed, otherwise its factors are kept
Power(f, d) ==
    IF f.of.kind = "int" /\ d.of.kind = "int"
    THEN [kind |-> "scaled", e |-> f.e + d.e - 3, of |-> IntValue(1163 * f.of.v * d.of.v)]
    ELSE [kind |-> "product", e |-> -3, of |-> <<IntValue(1163), f, d>>]

\* the derive step on the stored values
WithThermal(m) ==
    IF /\ "volume_flow" \in DOMAIN m /\ "delta_temperature" \in DOMAIN m
       /\ m["volume_flow"].value # NoValue
       /\ m["delta_temperature"].value # NoValue
    THEN Put(m, "thermal_power",
             Entry(Power(m["volume_flow"].value, m["delta_temperature"].value), "kW"))
    ELSE m

ReturnedValues(m) == [kind |-> "returned", values |-> m]

\* read_data from the collected buffer on: the frame loop, the derive step,
\* and the values returned or the exception raised
read_values(buf) ==
    LET out == CollectValues(buf, <<>>)
        m == WithThermal(out.values)
    IN  IF out.error # "" THEN Raised(out.error, MSG_CONVERT)
        ELSE IF DOMAIN m = {} THEN Raised("ValueError", MSG_NO_VALID_DATA)
        ELSE ReturnedValues(m)

\* what the meter side delivers to one read(512): nothing, an Ack, a response
\* (whole or in two pieces), a response without header or known record
SampleResponse == LongFrame(<<8, 254, 114>> \o <<82, 99, 1, 34, 180, 77, 23, 4, 51, 0, 0, 0>>
                                \o <<2, 59, 39, 1>> \o <<2, 97, 167, 3>>)
UnmappedResponse == LongFrame(<<8, 254, 114, 1, 127, 1>>)
\* a response without header whose one record maps (energy_total)
NoHeaderResponse == LongFrame(<<8, 254, 114, 1, 6, 42>>)
\* a response with the header and a record no table knows
HeaderOnlyResponse ==
    LongFrame(<<8, 254, 114>> \o <<82, 99, 1, 34, 180, 77, 23, 4, 51, 0, 0, 0>> \o <<1, 127, 1>>)
\* a response whose one record is an empty LVAR string under VIF 0x06
LvarResponse == LongFrame(<<8, 254, 114, 13, 6, 0>>)
ReadParts ==
    { <<>>, <<229>>, SubSeq(SampleResponse, 1, 10),
      SubSeq(SampleResponse, 11, Len(SampleResponse)), UnmappedResponse,
      NoHeaderResponse, HeaderOnlyResponse, LvarResponse }
\* what a read that is not the last of its window may deliver
EarlyParts == { <<>>, SubSeq(SampleResponse, 1, 10), NoHeaderResponse }

SampleAddrs == {254, 1}

\* MBusReader.__init__
ReaderInit ==
    /\ handles = <<>>
    /\ ser = 0
    /\ primary_address \in SampleAddrs
    /\ pc = "idle"
    /\ rbuf = <<>>
    /\ ops = <<>>
    /\ found = "none"
    /\ result = [kind |-> "none"]
    /\ calls = 0
    /\ cause = ""
    /\ CoordinatorUnused
    /\ FnUnused
    /\ parts = [pre |-> <<>>, mid |-> <<>>, suf |-> <<>>]
    /\ work = <<>> /\ frames = <<>> /\ fdone = TRUE
    /\ pfr = <<>> /\ parsed = NotParsed

NumOps(name) == Cardinality({ k \in 1..Len(ops) : ops[k].op = name })

\* read_data from its call to the first await: connect if needed, then the
\* synchronous head of _send_wakeup_8n1
BeginTransaction(hs, s, found_parity) ==
    LET h == WakeupSetup(hs[s])
    IN  /\ handles' = [hs EXCEPT ![s] = h]
        /\ ser' = s
        /\ ops' = <<Op("parity", <<>>, h), Op("reset_input", <<>>, h),
                    Op("reset_output", <<>>, h)>>
        /\ pc' = "wake_write"
        /\ rbuf' = <<>>
        /\ found' = found_parity
        /\ result' = Pending
        /\ cause' = IF found_parity = "none" THEN "" ELSE cause

\* read_data from its call to its first await, or to its raise when the
\* device cannot be opened
StartRead ==
    IF ~NeedsConnect
    THEN BeginTransaction(handles, ser, handles[ser].parity)
    ELSE \/ \* connect() opens the device
            BeginTransaction(Append(handles, NewHandle), Len(handles) + 1, "none")
         \/ \* connect() fails and returns False
            /\ ser' = 0
            /\ result' = Raised("SerialException", MSG_CANNOT_CONNECT)
            /\ ops' = <<>>
            /\ found' = "none"
            /\ cause' \in OpenErrors
            /\ UNCHANGED <<handles, pc, rbuf>>

\* a caller's read_data() on the idle reader
ReadStart ==
    /\ pc = "idle"
    /\ calls < MaxCalls
    /\ calls' = calls + 1
    /\ StartRead
    /\ UNCHANGED <<primary_address, fvars, pvars, evars>>

\* one write of the 0x55 chunk; the 2.2 s deadline decides whether another follows
WakeWrite ==
    /\ pc = "wake_write"
    /\ ops' = Append(ops, Op("write", WakeChunk, handles[ser]))
    /\ \/ /\ NumOps("write") + 1 < MaxWakeWrites
          /\ pc' = "wake_write"
       \/ pc' = "wake_flush"
    /\ UNCHANGED <<handles, ser, primary_address, rbuf, found, result, calls, cause, fvars, pvars, evars>>

WakeFlush ==
    /\ pc = "wake_flush"
    /\ pc' = "wake_sleep"
    /\ ops' = Append(ops, Op("flush", <<>>, handles[ser]))
    /\ UNCHANGED <<handles, ser, primary_address, rbuf, found, result, calls, cause, fvars, pvars, evars>>

\* asyncio.sleep(0.05) in _send_wakeup_8n1
WakeSleep ==
    /\ pc = "wake_sleep"
    /\ pc' = "settle"
    /\ ops' = ops
    /\ UNCHANGED <<handles, ser, primary_address, rbuf, found, result, calls, cause, fvars, pvars, evars>>

\* asyncio.sleep(0.35) in read_data ends; the synchronous head of _send_cmds_8e1
Settle ==
    /\ pc = "settle"
    /\ LET h == CmdsSetup(handles[ser])
       IN  /\ handles' = [handles EXCEPT ![ser] = h]
           /\ ops' = ops \o <<Op("parity", <<>>, h), Op("reset_input", <<>>, h)>>
    /\ pc' = "nke_write"
    /\ UNCHANGED <<ser, primary_address, rbuf, found, result, calls, cause, fvars, pvars, evars>>

NkeWrite ==
    /\ pc = "nke_write"
    /\ pc' = "nke_flush"
    /\ ops' = Append(ops, Op("write", short_frame(SND_NKE_C, primary_address), handles[ser]))
    /\ UNCHANGED <<handles, ser, primary_address, rbuf, found, result, calls, cause, fvars, pvars, evars>>

NkeFlush ==
    /\ pc = "nke_flush"
    /\ pc' = "nke_sleep"
    /\ ops' = Append(ops, Op("flush", <<>>, handles[ser]))
    /\ UNCHANGED <<handles, ser, primary_address, rbuf, found, result, calls, cause, fvars, pvars, evars>>

\* asyncio.sleep(0.35) in _send_cmds_8e1
NkeSleep ==
    /\ pc = "nke_sleep"
    /\ pc' = "req_write"
    /\ ops' = ops
    /\ UNCHANGED <<handles, ser, primary_address, rbuf, found, result, calls, cause, fvars, pvars, evars>>

ReqWrite ==
    /\ pc = "req_write"
    /\ pc' = "req_flush"
    /\ ops' = Append(ops, Op("write", short_frame(REQ_UD2_C, primary_address), handles[ser]))
    /\ UNCHANGED <<handles, ser, primary_address, rbuf, found, result, calls, cause, fvars, pvars, evars>>

\* the last flush; _read_window then starts its loop
ReqFlush ==
    /\ pc = "req_flush"
    /\ pc' = "collect"
    /\ ops' = Append(ops, Op("flush", <<>>, handles[ser]))
    /\ UNCHANGED <<handles, ser, primary_address, rbuf, found, result, calls, cause, fvars, pvars, evars>>

\* one read(512) of _read_window, the 2.5 s window still open after it
CollectMore ==
    /\ pc = "collect"
    /\ NumOps("read") + 1 < MaxReads
    /\ \E part \in EarlyParts : rbuf' = rbuf \o part
    /\ ops' = Append(ops, Op("read", <<>>, handles[ser]))
    /\ UNCHANGED <<handles, ser, primary_address, pc, found, result, calls, cause, fvars, pvars, evars>>

\* the read after which the window is over, then the rest of read_data:
\* parse, derive, and return the values or raise when there are none
CollectLast ==
    /\ pc = "collect"
    /\ \E part \in ReadParts :
        LET b == rbuf \o part
            out == CollectKeys(b, {})
            keys == Derived(out.keys)
            err == out.error
        IN  /\ rbuf' = b
            /\ IF err # "" \/ keys = {}
               THEN /\ result' = IF err # "" THEN Raised(err, MSG_CONVERT)
                                 ELSE Raised("ValueError", MSG_NO_VALID_DATA)
                    /\ handles' = Closed(handles, ser)
                    /\ ser' = 0
               ELSE /\ result' = Returned(keys)
                    /\ UNCHANGED <<handles, ser>>
    /\ ops' = Append(ops, Op("read", <<>>, handles[ser]))
    /\ pc' = "idle"
    /\ UNCHANGED <<primary_address, found, calls, cause, fvars, pvars, evars>>

\* the suspension points at which a serial call runs in the executor
\* (at "settle" it is the parity assignment of _send_cmds_8e1 that raises)
IoPoints == { "wake_write", "wake_flush", "settle", "nke_write", "nke_flush",
              "req_write", "req_flush", "collect" }

\* the serial call raises: read_data's except clause disconnects and re-raises
IoFail ==
    /\ pc \in IoPoints
    /\ \E e \in OsErrors : result' = IoError(pc, e)
    /\ handles' = Closed(handles, ser)
    /\ ser' = 0
    /\ pc' = "idle"
    /\ UNCHANGED <<primary_address, rbuf, ops, found, calls, cause, fvars, pvars, evars>>

\* a caller's reader.disconnect() between calls
Disconnect ==
    /\ pc = "idle"
    /\ ser # 0
    /\ handles' = Closed(handles, ser)
    /\ ser' = 0
    /\ UNCHANGED <<primary_address, pc, rbuf, ops, found, result, calls, cause, fvars, pvars, evars>>

\* the handle object the reader referred to, once the reference is replaced
\* or dropped without close(): it stays open, or the interpreter finalises
\* the unreferenced object and that closes it
Dropped(hs, s) == { hs, Closed(hs, s) }

\* a caller's reader.connect() between calls: serial.Serial(...) opens the
\* device and only then the reference is assigned; on failure the reference
\* is set to None
Connect ==
    /\ pc = "idle"
    /\ calls < MaxCalls
    /\ calls' = calls + 1
    /\ \/ /\ \E hs \in Dropped(handles, ser) : handles' = Append(hs, NewHandle)
          /\ ser' = Len(handles) + 1
          /\ cause' = ""
       \/ /\ ser' = 0
          /\ cause' \in OpenErrors
          /\ handles' \in Dropped(handles, ser)
    /\ UNCHANGED <<primary_address, pc, rbuf, ops, found, result, fvars, pvars, evars>>

\* the task awaiting read_data is cancelled while the call is suspended: the
\* CancelledError raised at the await is no Exception, so the except clause
\* of read_data (mbus.py:390) does not run and nothing is closed or restored
Cancel ==
    /\ pc # "idle"
    /\ pc' = "idle"
    /\ result' = Raised("CancelledError", <<>>)
    /\ UNCHANGED <<handles, ser, primary_address, rbuf, ops, found, calls, cause, fvars, pvars, evars>>

Next ==
    \/ ReadStart \/ WakeWrite \/ WakeFlush \/ WakeSleep \/ Settle
    \/ NkeWrite \/ NkeFlush \/ NkeSleep \/ ReqWrite \/ ReqFlush
    \/ CollectMore \/ CollectLast \/ IoFail \/ Cancel \/ Disconnect \/ Connect

Spec == ReaderInit /\ [][Next]_vars

\* ------------------------------------------------------------------ coordinator
\* UltraLiteProCoordinator._fetch_data_with_retry on the coordinator's reader

max_retries == 3
MaxUpdates == 1

\* str.lower() on the phrases a message is made of
Lower(phrase) ==
    CASE phrase = EACCES -> "permission denied"
      [] phrase = ENOENT -> "no such file or directory"
      [] phrase = EIO -> "input/output error"
      [] phrase = EBUSY -> "device or resource busy"
      [] phrase = "Cannot connect to device" -> "cannot connect to device"
      [] phrase = "Could not configure port:" -> "could not configure port:"
      [] phrase = "No valid data" -> "no valid data"
      [] OTHER -> phrase
LowerMsg(msg) == [k \in 1..Len(msg) |-> Lower(msg[k])]

\* phrase in message
Has(msg, phrase) == \E k \in 1..Len(msg) : msg[k] = phrase

UF_PERMISSION == "Permission denied accessing USB device"
UF_NOT_FOUND == "USB device not found"
UF_SERIAL == "Serial communication error"
UF_UNEXPECTED == "Unexpected error"
UF_NOT_RESPONDING == "Device not responding (device may be disconnected)"
UF_NOT_UNDERSTOOD == "Target device response not understood"
UF_EXHAUSTED == "Failed after 3 attempts"
UpdateFailed(msg) == [kind |-> "failed", msg |-> msg]

HandlingRetriesAll(e) ==
    IF e.kind = "returned"
    THEN [do |-> "return", msg |-> "", disconnect |-> FALSE]
    ELSE [do |-> "retry", msg |-> "", disconnect |-> TRUE]
\* what the try statement of the loop body does with the end of read_data
Handling(e) ==
    IF e.kind = "returned"
    THEN [do |-> "return", msg |-> "", disconnect |-> FALSE]
    ELSE IF e.type = "SerialException"
    THEN IF Has(LowerMsg(e.msg), "permission denied")
         THEN [do |-> "raise", msg |-> UF_PERMISSION, disconnect |-> FALSE]
         ELSE IF Has(LowerMsg(e.msg), "no such file or directory")
         THEN [do |-> "raise", msg |-> UF_NOT_FOUND, disconnect |-> FALSE]
         ELSE IF Has(LowerMsg(e.msg), "input/output error")
         THEN [do |-> "retry", msg |-> "", disconnect |-> TRUE]
         ELSE [do |-> "raise", msg |-> UF_SERIAL, disconnect |-> FALSE]
    ELSE IF Has(e.msg, "No valid data")
         THEN [do |-> "retry", msg |-> "", disconnect |-> FALSE]
         ELSE [do |-> "raise", msg |-> UF_UNEXPECTED, disconnect |-> FALSE]

\* the statements after the loop
Exhausted(e) ==
    IF e.kind = "raised" /\ Has(LowerMsg(e.msg), "input/output error")
    THEN UpdateFailed(UF_NOT_RESPONDING)
    ELSE IF e.kind = "raised" /\ Has(e.msg, "No valid data")
    THEN UpdateFailed(UF_NOT_UNDERSTOOD)
    ELSE UpdateFailed(UF_EXHAUSTED)

ShouldSleepAlways(a) == TRUE
ShouldSleep(a) == a < max_retries - 1

\* an update begins: attempt 0 calls read_data
UpdateStart ==
    /\ cpc = "idle"
    /\ pc = "idle"
    /\ updates < MaxUpdates
    /\ updates' = updates + 1
    /\ attempt' = 0
    /\ last_exception' = [kind |-> "none"]
    /\ sleeps' = <<>>
    /\ nreads' = 1
    /\ update' = [kind |-> "pending"]
    /\ cpc' = "reading"
    /\ StartRead
    /\ UNCHANGED <<primary_address, calls, fvars, pvars, ovars, svars, nvars>>

\* read_data has ended: return, raise UpdateFailed, or go on to the next
\* attempt, asleep first when attempts remain
AttemptEnd ==
    /\ cpc = "reading"
    /\ pc = "idle"
    /\ IF Handling(result).disconnect
       THEN handles' = Closed(handles, ser) /\ ser' = 0
       ELSE UNCHANGED <<handles, ser>>
    /\ last_exception' = IF result.kind = "raised" THEN result ELSE last_exception
    /\ IF Handling(result).do = "return"
       THEN update' = result /\ cpc' = "idle" /\ UNCHANGED sleeps
       ELSE IF Handling(result).do = "raise"
       THEN update' = UpdateFailed(Handling(result).msg) /\ cpc' = "idle" /\ UNCHANGED sleeps
       ELSE IF ShouldSleep(attempt)
       THEN sleeps' = Append(sleeps, 2 ^ attempt) /\ cpc' = "backoff" /\ UNCHANGED update
       ELSE update' = Exhausted(result) /\ cpc' = "idle" /\ UNCHANGED sleeps
    /\ UNCHANGED <<attempt, nreads, updates, primary_address, pc, rbuf, ops, found, result,
                   calls, cause, fvars, pvars, ovars, svars, nvars>>

\* the backoff sleep is over: the next attempt calls read_data
BackoffEnd ==
    /\ cpc = "backoff"
    /\ attempt' = attempt + 1
    /\ IF attempt + 1 < max_retries
       THEN /\ nreads' = nreads + 1
            /\ cpc' = "reading"
            /\ StartRead
            /\ UNCHANGED update
       ELSE /\ update' = Exhausted(last_exception)
            /\ cpc' = "idle"
            /\ UNCHANGED <<nreads, handles, ser, pc, rbuf, ops, found, result, cause>>
    /\ UNCHANGED <<sleeps, last_exception, updates, primary_address, calls, fvars, pvars,
                   ovars, svars, nvars>>

UpdateNext ==
    \/ UpdateStart \/ AttemptEnd \/ BackoffEnd
    \/ WakeWrite \/ WakeFlush \/ WakeSleep \/ Settle
    \/ NkeWrite \/ NkeFlush \/ NkeSleep \/ ReqWrite \/ ReqFlush
    \/ CollectMore \/ CollectLast \/ IoFail

SpecUpdate == ReaderInit /\ [][UpdateNext]_vars

\* ------------------------------------------------------------------ second task
\* a second read_data call on the same MBusReader, started while the first is
\* suspended; read_data takes no lock, and every step reads self._serial anew

MaxOthers == 1

t1vars == <<primary_address, pc, rbuf, ops, found, result, calls, cause>>

MSG_NOT_CONNECTED == <<"Not connected">>
MSG_NONE_TYPE == <<"'NoneType' object has no attribute">>

\* the points at which the resumed call uses self._serial first
PortPoints == { "wake_write", "wake_flush", "settle", "nke_write", "nke_flush",
                "req_write", "req_flush", "collect" }

\* what a call resumed at point p raises when self._serial is None
NoSerialError(p) ==
    IF p = "settle" THEN Raised("SerialException", MSG_NOT_CONNECTED)
    ELSE Raised("AttributeError", MSG_NONE_TYPE)

\* the point after p on the straight path of the transaction
AfterPoint(p) ==
    CASE p = "wake_write" -> "wake_flush"
      [] p = "wake_flush" -> "wake_sleep"
      [] p = "wake_sleep" -> "settle"
      [] p = "settle" -> "nke_write"
      [] p = "nke_write" -> "nke_flush"
      [] p = "nke_flush" -> "nke_sleep"
      [] p = "nke_sleep" -> "req_write"
      [] p = "req_write" -> "req_flush"
      [] p = "req_flush" -> "collect"

\* the port operations of the step taken from point p, by name
StepOps(p) ==
    CASE p \in {"wake_write", "nke_write", "req_write"} -> <<"write">>
      [] p = "settle" -> <<"parity", "reset_input">>
      [] p \in {"wake_flush", "nke_flush", "req_flush"} -> <<"flush">>
      [] p = "collect" -> <<"read">>
      [] OTHER -> <<>>

NumOps2(name) == Cardinality({ k \in 1..Len(ops2) : ops2[k] = name })

\* what the reads of the second call deliver
OtherParts == { <<>>, NoHeaderResponse }

\* where the first call is suspended when the second one starts: a sleep,
\* an offloaded write, an offloaded read
StartPoints == { "nke_sleep", "req_write", "collect" }

\* the second read_data call, to its first await
OtherStart ==
    /\ pc2 = "idle"
    /\ pc \in StartPoints
    /\ others < MaxOthers
    /\ others' = others + 1
    /\ IF ~NeedsConnect
       THEN LET h == WakeupSetup(handles[ser])
            IN  /\ handles' = [handles EXCEPT ![ser] = h]
                /\ ops2' = <<"parity", "reset_input", "reset_output">>
                /\ at2' = [call |-> calls, len |-> Len(ops)]
                /\ pc2' = "wake_write"
                /\ result2' = Pending
                /\ UNCHANGED <<ser, cause>>
       ELSE \/ /\ handles' = Append(handles, WakeupSetup(NewHandle))
               /\ ser' = Len(handles) + 1
               /\ ops2' = <<"parity", "reset_input", "reset_output">>
               /\ at2' = [call |-> calls, len |-> Len(ops)]
               /\ pc2' = "wake_write"
               /\ result2' = Pending
               /\ cause' = ""
            \/ /\ result2' = Raised("SerialException", MSG_CANNOT_CONNECT)
               /\ ops2' = <<>>
               /\ ser' = 0
               /\ cause' \in OpenErrors
               /\ UNCHANGED <<handles, pc2, at2>>
    /\ rbuf2' = <<>>
    /\ UNCHANGED <<primary_address, pc, rbuf, ops, found, result, calls, fvars, pvars, cvars, svars, nvars>>

\* the second call takes one step that uses the port
OtherPortStep ==
    /\ pc2 \in PortPoints \ {"collect"}
    /\ ser # 0
    /\ LET h == IF pc2 = "settle" THEN CmdsSetup(handles[ser]) ELSE handles[ser]
       IN  /\ handles' = [handles EXCEPT ![ser] = h]
           /\ ops2' = ops2 \o StepOps(pc2)
    /\ IF pc2 = "wake_write" /\ NumOps2("write") + 1 < MaxWakeWrites
       THEN pc2' \in {"wake_write", "wake_flush"}
       ELSE pc2' = AfterPoint(pc2)
    /\ UNCHANGED <<ser, rbuf2, result2, at2, others, t1vars, fvars, pvars, cvars, svars, nvars>>

\* one of the second call's sleeps is over
OtherSleepStep ==
    /\ pc2 \in {"wake_sleep", "nke_sleep"}
    /\ pc2' = AfterPoint(pc2)
    /\ UNCHANGED <<handles, ser, rbuf2, ops2, result2, at2, others, t1vars, fvars, pvars,
                   cvars, svars, nvars>>

\* a read of the second call's window that is not its last
OtherCollectMore ==
    /\ pc2 = "collect"
    /\ ser # 0
    /\ NumOps2("read") + 1 < MaxReads
    /\ \E part \in OtherParts : rbuf2' = rbuf2 \o part
    /\ ops2' = ops2 \o StepOps(pc2)
    /\ UNCHANGED <<handles, ser, pc2, result2, at2, others, t1vars, fvars, pvars, cvars, svars, nvars>>

\* the last read of the second call's window, and the rest of its read_data
OtherCollectLast ==
    /\ pc2 = "collect"
    /\ ser # 0
    /\ \E part \in OtherParts :
        LET b == rbuf2 \o part
            out == CollectKeys(b, {})
            keys == Derived(out.keys)
            err == out.error
        IN  /\ rbuf2' = b
            /\ IF err # "" \/ keys = {}
               THEN /\ result2' = IF err # "" THEN Raised(err, MSG_CONVERT)
                                  ELSE Raised("ValueError", MSG_NO_VALID_DATA)
                    /\ handles' = Closed(handles, ser)
                    /\ ser' = 0
               ELSE /\ result2' = Returned(keys)
                    /\ UNCHANGED <<handles, ser>>
    /\ ops2' = ops2 \o StepOps(pc2)
    /\ pc2' = "idle"
    /\ UNCHANGED <<at2, others, t1vars, fvars, pvars, cvars, svars, nvars>>

\* the second call resumes after the first one has disconnected
OtherOrphaned ==
    /\ pc2 \in PortPoints
    /\ ser = 0
    /\ result2' = NoSerialError(pc2)
    /\ pc2' = "idle"
    /\ UNCHANGED <<handles, ser, rbuf2, ops2, at2, others, t1vars, fvars, pvars, cvars, svars, nvars>>

\* the first call resumes after the second one has disconnected
Orphaned ==
    /\ pc \in PortPoints
    /\ ser = 0
    /\ result' = NoSerialError(pc)
    /\ pc' = "idle"
    /\ UNCHANGED <<handles, ser, primary_address, rbuf, ops, found, calls, cause,
                   fvars, pvars, evars>>

\* the first task calls read_data before the second does; each of its steps
\* that uses the port needs self._serial, and raises (Orphaned) without it
OverlapNext ==
    \/ others = 0 /\ ReadStart
    \/ ser # 0 /\ WakeWrite
    \/ ser # 0 /\ WakeFlush
    \/ WakeSleep
    \/ ser # 0 /\ Settle
    \/ ser # 0 /\ NkeWrite
    \/ ser # 0 /\ NkeFlush
    \/ NkeSleep
    \/ ser # 0 /\ ReqWrite
    \/ ser # 0 /\ ReqFlush
    \/ ser # 0 /\ CollectMore
    \/ ser # 0 /\ CollectLast
    \/ Orphaned
    \/ OtherStart \/ OtherPortStep \/ OtherSleepStep
    \/ OtherCollectMore \/ OtherCollectLast \/ OtherOrphaned

SpecOverlap == ReaderInit /\ [][OverlapNext]_vars

\* ------------------------------------------------------------------ validate_input
\* config_flow.validate_input for the device path of the configured entry: it
\* makes a reader of its own, and serial.Serial is opened without exclusive
\* access, so the open does not depend on the handles that exist

MaxValidations == 1

\* texts are sequences of ASCII codes
RECURSIVE LStrip(_)
\* the text without the white space at its start
LStrip(t) == IF t # <<>> /\ Head(t) \in {9, 10, 11, 12, 13, 32} THEN LStrip(Tail(t)) ELSE t
\* str.strip(): int() ignores white space around the number
Strip(t) == Reverse(LStrip(Reverse(LStrip(t))))

\* the value of the character c as a digit of the base, -1 if it is none
DigitOf(c, base) ==
    LET d == CASE 48 <= c /\ c <= 57 -> c - 48
               [] 97 <= c /\ c <= 122 -> c - 87
               [] 65 <= c /\ c <= 90 -> c - 55
               [] OTHER -> -1
    IN  IF d < base THEN d ELSE -1

RECURSIVE DigitsInt(_, _, _)
DigitsInt(ds, base, acc) ==
    IF ds = <<>> THEN acc ELSE DigitsInt(Tail(ds), base, acc * base + DigitOf(Head(ds), base))

\* int(text, base) for base 10 and 16: white space around, an optional sign,
\* for base 16 an optional 0x or 0X, then one digit or more; ok is FALSE
\* where int() raises ValueError
ParseInt(text, base) ==
    LET s == Strip(text)
        signed == s # <<>> /\ Head(s) \in {43, 45}
        u == IF signed THEN Tail(s) ELSE s
        prefixed == base = 16 /\ Len(u) >= 2 /\ u[1] = 48 /\ u[2] \in {88, 120}
        ds == IF prefixed THEN Tail(Tail(u)) ELSE u
        ok == ds # <<>> /\ \A k \in 1..Len(ds) : DigitOf(ds[k], base) >= 0
        n == IF ok THEN DigitsInt(ds, base, 0) ELSE 0
    IN  [ok |-> ok, v |-> IF signed /\ Head(s) = 45 THEN 0 - n ELSE n]

\* a variant that accepts any number a text denotes
ParseAddressAnyNumber(text) ==
    LET hex == Len(text) >= 2 /\ text[1] = 48 /\ text[2] = 120
        p == ParseInt(text, IF hex THEN 16 ELSE 10)
    IN  [ok |-> p.ok, v |-> p.v]
\* the "Parse primary address" block: base 16 for a text that starts with
\* "0x", base 10 otherwise, and ValueError outside 0..255
ParseAddress(text) ==
    LET hex == Len(text) >= 2 /\ text[1] = 48 /\ text[2] = 120
        p == ParseInt(text, IF hex THEN 16 ELSE 10)
    IN  [ok |-> p.ok /\ 0 <= p.v /\ p.v <= 255, v |-> p.v]

\* address texts a form can submit: "0xFE", "0xfe", "254", "1", "0", "255",
\* "0xff", "001", "+1", "-0", " 254", "0xFE ", "0x01" are accepted; "256", "0x100",
\* "-1", "", "abc", "0x", "0xZZ", "0XFE", " 0xFE", "12a" are not
AddressTexts ==
    { <<48, 120, 70, 69>>, <<48, 120, 102, 101>>, <<50, 53, 52>>, <<49>>, <<48>>,
      <<50, 53, 53>>, <<48, 120, 102, 102>>, <<48, 48, 49>>, <<43, 49>>, <<45, 48>>,
      <<32, 50, 53, 52>>, <<48, 120, 70, 69, 32>>, <<48, 120, 48, 49>>,
      <<50, 53, 54>>, <<48, 120, 49, 48, 48>>, <<45, 49>>, <<>>, <<97, 98, 99>>,
      <<48, 120>>, <<48, 120, 90, 90>>, <<48, 88, 70, 69>>, <<32, 48, 120, 70, 69>>,
      <<49, 50, 97>> }

\* a response whose header carries the identification number 0
ZeroIdResponse ==
    LongFrame(<<8, 254, 114>> \o <<0, 0, 0, 0, 180, 77, 23, 4, 51, 0, 0, 0>> \o <<1, 6, 42>>)
\* a response without header whose one record is a serial number
SerialOnlyResponse == LongFrame(<<8, 254, 114, 4, 120, 82, 99, 1, 34>>)

\* what the reads of the validating reader's window deliver, taken together
ValidateParts ==
    { <<>>, SampleResponse, NoHeaderResponse, ZeroIdResponse, SerialOnlyResponse,
      LvarResponse }

\* bool(x) of a stored value: None, 0 and the empty text are false
Truthy(x) ==
    CASE x.kind = "none" -> FALSE
      [] x.kind = "int" -> x.v # 0
      [] x.kind = "str" -> x.chars # <<>>
      [] OTHER -> TRUE

\* meter_data.get("device_id"), None when the key is missing
DeviceIdOf(m) == IF "device_id" \in DOMAIN m THEN IntValue(m["device_id"].scalar) ELSE NoValue
\* meter_data.get("serial_number", {}).get("value") if the entry is there
SerialNumberOf(m) == IF "serial_number" \in DOMAIN m THEN m["serial_number"].value ELSE NoValue

\* the except clause of validate_input: the exception type by the phrase
\* found in str(e)
RaisedFor(msg) ==
    IF Has(msg, EACCES) THEN Raised("PermissionDenied", <<>>)
    ELSE IF Has(msg, ENOENT) THEN Raised("USBNotFound", <<>>)
    ELSE IF Has(msg, "No valid data") THEN Raised("DeviceNotResponding", <<>>)
    ELSE Raised("CannotConnect", <<>>)

\* the end of validate_input for what its read_data came to: an exception of
\* read_data goes to the except clause, and so does the DeviceNotResponding
\* raised inside the try block, whose str(e) is empty
ValidateOutcome(read, address) ==
    IF read.kind = "raised" THEN RaisedFor(read.msg)
    ELSE IF ~Truthy(DeviceIdOf(read.values)) /\ ~Truthy(SerialNumberOf(read.values))
    THEN RaisedFor(<<>>)
    ELSE [kind |-> "returned", device_id |-> DeviceIdOf(read.values),
          serial_number |-> SerialNumberOf(read.values), primary_address |-> address]

\* validate_input on a text the address block rejects: InvalidPrimaryAddress
\* is raised before MBusReader(...) is reached
ValidateReject ==
    /\ vpc = "idle"
    /\ validations < MaxValidations
    /\ validations' = validations + 1
    /\ \E text \in AddressTexts :
          /\ ~ParseAddress(text).ok
          /\ vdata' = [address |-> text, read |-> [kind |-> "none"]]
    /\ vresult' = Raised("InvalidPrimaryAddress", <<>>)
    /\ UNCHANGED <<handles, ser, vser, vpc, t1vars, fvars, pvars, cvars, ovars, nvars>>

\* validate_input on an accepted text, up to the first await of its reader's
\* read_data, or to its end when the device cannot be opened: connect()
\* returns False, CannotConnect is raised in the try block and raised again
\* by the except clause
ValidateStart ==
    /\ vpc = "idle"
    /\ validations < MaxValidations
    /\ validations' = validations + 1
    /\ \E text \in AddressTexts :
          /\ ParseAddress(text).ok
          /\ vdata' = [address |-> text, read |-> [kind |-> "none"]]
    /\ \/ /\ handles' = Append(handles, WakeupSetup(NewHandle))
          /\ vser' = Len(handles) + 1
          /\ vpc' = "wakeup"
          /\ vresult' = Pending
       \/ /\ vresult' = RaisedFor(<<>>)
          /\ UNCHANGED <<handles, vser, vpc>>
    /\ UNCHANGED <<ser, t1vars, fvars, pvars, cvars, ovars, nvars>>

\* the validating reader's wakeup is over: _send_cmds_8e1 on its handle
ValidateCmds ==
    /\ vpc = "wakeup"
    /\ handles' = [handles EXCEPT ![vser] = CmdsSetup(handles[vser])]
    /\ vpc' = "commands"
    /\ UNCHANGED <<ser, vser, vresult, validations, vdata, t1vars, fvars, pvars, cvars,
                   ovars, nvars>>

\* a serial call of the validating reader fails with an OS error: read_data
\* disconnects and raises it on, validate_input maps it, and its finally
\* clause finds the reader without a handle
ValidateFail ==
    /\ vpc \in {"wakeup", "commands"}
    /\ \E e \in OsErrors, p \in {"wake_write", "wake_flush", "nke_write", "collect"} :
          /\ (p \in {"wake_write", "wake_flush"}) <=> (vpc = "wakeup")
          /\ vdata' = [vdata EXCEPT !.read = IoError(p, e)]
          /\ vresult' = RaisedFor(IoError(p, e).msg)
    /\ handles' = Closed(handles, vser)
    /\ vser' = 0
    /\ vpc' = "idle"
    /\ UNCHANGED <<ser, validations, t1vars, fvars, pvars, cvars, ovars, nvars>>

\* the task awaiting validate_input is cancelled while read_data is
\* suspended: no except clause catches CancelledError, the finally clause of
\* validate_input disconnects the reader
ValidateCancel ==
    /\ vpc \in {"wakeup", "commands"}
    /\ vdata' = [vdata EXCEPT !.read = Raised("CancelledError", <<>>)]
    /\ vresult' = Raised("CancelledError", <<>>)
    /\ handles' = Closed(handles, vser)
    /\ vser' = 0
    /\ vpc' = "idle"
    /\ UNCHANGED <<ser, validations, t1vars, fvars, pvars, cvars, ovars, nvars>>

\* the validating reader's window is over: the rest of read_data (which
\* disconnects when it raises) and of validate_input, whose finally clause
\* disconnects its reader
ValidateEnd ==
    /\ vpc = "commands"
    /\ \E b \in ValidateParts :
          /\ vdata' = [vdata EXCEPT !.read = read_values(b)]
          /\ vresult' = ValidateOutcome(read_values(b), ParseAddress(vdata.address).v)
    /\ handles' = Closed(handles, vser)
    /\ vser' = 0
    /\ vpc' = "idle"
    /\ UNCHANGED <<ser, validations, t1vars, fvars, pvars, cvars, ovars, nvars>>

ValidateNext ==
    \/ ValidateReject \/ ValidateStart \/ ValidateCmds
    \/ ValidateFail \/ ValidateCancel \/ ValidateEnd

\* validate_input alone, as the config flow runs it before an entry exists
SpecValidate == ReaderInit /\ [][ValidateNext]_vars

\* f"0x{current_address:02X}": the address of the entry as the options form
\* shows it
AddressDisplay(n) ==
    LET HexDigit(d) == IF d < 10 THEN 48 + d ELSE 55 + d
    IN  <<48, 120>> \o (IF n >= 256 THEN <<HexDigit((n \div 256) % 16)>> ELSE <<>>)
                    \o <<HexDigit((n \div 16) % 16), HexDigit(n % 16)>>

\* the entry's reader in use while the options flow validates the form with
\* the address it showed
SharedNext ==
    \/ ReadStart \/ WakeWrite \/ WakeFlush \/ WakeSleep \/ Settle
    \/ NkeWrite \/ NkeFlush \/ NkeSleep \/ ReqWrite \/ ReqFlush
    \/ CollectMore \/ CollectLast \/ Disconnect
    \/ ValidateStart /\ vdata'.address = AddressDisplay(primary_address)
    \/ ValidateCmds
    \/ ValidateEnd /\ vdata'.read \in { read_values(b) : b \in { <<>>, SampleResponse,
                                                                NoHeaderResponse } }

SpecShared == ReaderInit /\ [][SharedNext]_vars

\* ------------------------------------------------------------------ functions
\* the pure functions of mbus.py, each called once on an argument

\* record streams of one record whose value is not an integer: LVAR byte
\* strings (empty, the text "12", a byte outside ASCII) and 32-bit floats
\* (1.5, NaN, +infinity)
OddStreams ==
    { <<13, 6, 0>>, <<13, 6, 2, 49, 50>>, <<13, 120, 1, 255>>, <<13, 109, 0>>,
      <<13, 127, 0>>, <<13, 253, 14, 0>>,
      <<5, 6, 0, 0, 192, 63>>, <<5, 39, 0, 0, 192, 127>>, <<5, 39, 0, 0, 128, 127>> }

\* record streams of one serial number record (VIF 0x78): unsigned integers
\* of 1, 2, 4, 6 and 8 bytes and BCD of 1, 4 and 6 bytes, below 10^8 and not
SerialStreams ==
    { <<1, 120, 255>>, <<2, 120, 57, 48>>, <<4, 120, 82, 99, 1, 34>>,
      <<4, 120, 255, 224, 245, 5>>, <<4, 120, 0, 225, 245, 5>>,
      <<6, 120, 0, 0, 0, 64, 0, 0>>, <<7, 120, 1, 0, 0, 0, 0, 0, 0, 0>>,
      <<9, 120, 7>>, <<12, 120, 82, 99, 1, 34>>, <<12, 120, 153, 153, 153, 153>>,
      <<14, 120, 1, 0, 0, 0, 16, 0>> }

\* records as parse_long_frame emits them: VIFEs follow a VIF with bit 7 set,
\* unless the stream ends there, and then the record has no value
MapVifes(VIF) ==
    IF VIF < 128 THEN { <<>> }
    ELSE { <<14>>, <<15>>, <<8>>, <<9>>, <<10>>, <<142, 1>> }
MapValues == { IntValue(0), IntValue(8), IntValue(295), IntValue(35504), NoValue }
MapRecords ==
    (UNION { { [ofs |-> 0, DIF |-> 4, VIF |-> VIF, DIFEs |-> <<>>, VIFEs |-> es,
                raw |-> <<>>, value |-> v] : es \in MapVifes(VIF), v \in MapValues }
             : VIF \in 0..255 })
    \cup { [ofs |-> 0, DIF |-> 4, VIF |-> VIF, DIFEs |-> <<>>, VIFEs |-> <<>>,
             raw |-> <<>>, value |-> NoValue] : VIF \in 128..255 }
    \cup { [ofs |-> 0, special |-> 15] }
    \cup { ParseLoop(rb, 0, <<>>).records[1] : rb \in OddStreams \cup SerialStreams }

\* decimal digits of n >= 0, most significant first
RECURSIVE Decimal(_)
Decimal(n) == IF n < 10 THEN <<n>> ELSE Append(Decimal(n \div 10), n % 10)

\* the k-byte little-endian packed BCD of a number given by its decimal
\* digits: zero padded to 2k digits, two digits per byte, the less significant
\* one in the low nibble, the least significant byte first
encode_bcd_le(ds, k) ==
    LET p == [i \in 1..(2 * k - Len(ds)) |-> 0] \o ds
    IN  [j \in 1..k |-> p[2 * k - 2 * j + 2] + 16 * p[2 * k - 2 * j + 1]]

BcdSizes == {1, 2, 3, 4, 6}

\* numbers of at most 2k digits: all of them for one byte, the ends of the
\* range and some inside it for the longer fields
BcdNumbers(k) ==
    CASE k = 1 -> { Decimal(n) : n \in 0..99 }
      [] k = 2 -> { Decimal(n) : n \in {0, 7, 100, 1203, 9000, 9999} }
      [] k = 3 -> { Decimal(n) : n \in {0, 10, 123456, 100000, 999999} }
      [] k = 4 -> { Decimal(n) : n \in {0, 352, 22016352, 10000000, 99999999} }
      [] k = 6 -> { Decimal(0), Decimal(22016352), Decimal(2147483647),
                    <<2, 1, 4, 7, 4, 8, 3, 6, 4, 8>>,
                    <<1, 0, 0, 0, 0, 0, 0, 0, 0, 0, 0, 0>>,
                    <<9, 9, 9, 9, 9, 9, 9, 9, 9, 9, 9, 9>> }

\* data fields that are not the encoding of a number: a nibble above 9, no byte
BcdOther == { <<>>, <<255>>, <<31, 2>>, <<18, 240>> }

BcdData ==
    (UNION { { encode_bcd_le(ds, k) : ds \in BcdNumbers(k) } : k \in BcdSizes })
        \cup BcdOther

\* manufacturer words: every choice of three fields from the letters of
\* "SMT" and of "ITR", the ends of the alphabet and the codes around it, with
\* bit 15 clear or set
ManFields == {0, 1, 9, 13, 18, 19, 20, 26, 27, 31}
ManWords ==
    { t * 32768 + a * 1024 + b * 32 + c :
        t \in {0, 1}, a \in ManFields, b \in ManFields, c \in ManFields }

\* what a window may hold: responses with one or two records, with and
\* without header, an Ack, a response whose checksum is wrong
MaxFrames == 2

SecondResponse == LongFrame(<<8, 254, 114>> \o <<82, 99, 1, 34, 180, 77, 23, 4, 52, 0, 0, 0>>
                                \o <<2, 60, 12, 0>> \o <<2, 97, 10, 0>>)
TwoFlows == LongFrame(<<8, 254, 114>> \o <<2, 60, 7, 0>> \o <<2, 59, 12, 0>>)
DeltaAndAccess == LongFrame(<<8, 254, 114>> \o <<2, 97, 10, 0>> \o <<1, 253, 8, 5>>)
ValuelessFlow == LongFrame(<<8, 254, 114>> \o <<1, 6, 43>> \o <<0, 59>>)
MediumAndTime == LongFrame(<<8, 254, 114>> \o <<1, 253, 9, 4>> \o <<4, 109, 0, 0, 0, 0>>)
BadSumResponse ==
    [SampleResponse EXCEPT ![Len(SampleResponse) - 1] = (@ + 1) % 256]

WindowFrames ==
    { SampleResponse, SecondResponse, NoHeaderResponse, UnmappedResponse,
      LvarResponse, <<229>>, TwoFlows, DeltaAndAccess, ValuelessFlow,
      MediumAndTime, BadSumResponse }

RECURSIVE Windows(_)
Windows(n) ==
    IF n = 0 THEN { <<>> }
    ELSE Windows(n - 1) \cup { w \o f : w \in Windows(n - 1), f \in WindowFrames }

\* the bytes the framer looks for (10, 16, 68, E5), the control bytes and
\* the addresses the driver uses, and the ends of the byte range
MarkBytes == {0, 1, 16, 22, 64, 91, 104, 123, 127, 128, 229, 253, 254, 255}

FnArgs ==
    { [fn |-> "record_to_human", r |-> r] : r \in MapRecords }
        \cup { [fn |-> "read_data", buf |-> b] : b \in Windows(MaxFrames) }
        \cup { [fn |-> "short_frame", ctrl |-> c, addr |-> a] : c \in 0..255, a \in MarkBytes }
        \cup { [fn |-> "short_frame", ctrl |-> c, addr |-> a] : c \in MarkBytes, a \in 0..255 }
        \cup { [fn |-> "decode_bcd_le", data |-> d] : d \in BcdData }
        \cup { [fn |-> "man_code_from_word", w |-> w] : w \in ManWords }

FnInit ==
    /\ arg \in FnArgs
    /\ ret = [done |-> FALSE]
    /\ ReaderUnused
    /\ CoordinatorUnused
    /\ parts = [pre |-> <<>>, mid |-> <<>>, suf |-> <<>>]
    /\ work = <<>> /\ frames = <<>> /\ fdone = TRUE
    /\ pfr = <<>> /\ parsed = NotParsed

\* m = record_to_human(r)
MapRecord ==
    /\ arg.fn = "record_to_human"
    /\ ~ret.done
    /\ ret' = [done |-> TRUE, out |-> record_to_human(arg.r)]
    /\ UNCHANGED <<arg, fvars, pvars, rvars, cvars, ovars, svars>>

DecodeBcd ==
    /\ arg.fn = "decode_bcd_le" /\ ~ret.done
    /\ ret' = [done |-> TRUE, out |-> BcdDecimal(arg.data)]
    /\ UNCHANGED <<arg, fvars, pvars, rvars, cvars, ovars, svars>>

ManCode ==
    /\ arg.fn = "man_code_from_word" /\ ~ret.done
    /\ ret' = [done |-> TRUE, out |-> man_code_from_word(arg.w)]
    /\ UNCHANGED <<arg, fvars, pvars, rvars, cvars, ovars, svars>>

\* read_data once _read_window has returned buf: parse, derive, return or
\* raise (the exchange on the port before it is the reader's specification)
ReadValues ==
    /\ arg.fn = "read_data" /\ ~ret.done
    /\ ret' = [done |-> TRUE, out |-> read_values(arg.buf)]
    /\ UNCHANGED <<arg, fvars, pvars, rvars, cvars, ovars, svars>>

\* short_frame(ctrl, addr), and find_next_frame on the bytes it made
FrameShort ==
    /\ arg.fn = "short_frame" /\ ~ret.done
    /\ ret' = [done |-> TRUE, out |-> short_frame(arg.ctrl, arg.addr),
               scan |-> find_next_frame(short_frame(arg.ctrl, arg.addr))]
    /\ UNCHANGED <<arg, fvars, pvars, rvars, cvars, ovars, svars>>

FnNext == MapRecord \/ DecodeBcd \/ ManCode \/ ReadValues \/ FrameShort

SpecFn == FnInit /\ [][FnNext]_vars

\* ------------------------------------------------------ reader: claim C10
NotFlush(o) == o.op # "flush"
\* the port operations of the call, flushes left out
PortOps == SelectSeq(ops, NotFlush)

\* the operation the transaction has at position k when it writes n wakeup chunks
Expected(k, n) ==
    CASE k = 1 -> [op |-> "parity", data |-> <<>>, parity |-> "N"]
      [] k = 2 -> [op |-> "reset_input", data |-> <<>>, parity |-> "N"]
      [] k = 3 -> [op |-> "reset_output", data |-> <<>>, parity |-> "N"]
      [] k \in 4..(3 + n) -> [op |-> "write", data |-> WakeChunk, parity |-> "N"]
      [] k = 4 + n -> [op |-> "parity", data |-> <<>>, parity |-> "E"]
      [] k = 5 + n -> [op |-> "reset_input", data |-> <<>>, parity |-> "E"]
      [] k = 6 + n -> [op |-> "write", parity |-> "E",
                       data |-> <<16, 64, primary_address, (64 + primary_address) % 256, 22>>]
      [] k = 7 + n -> [op |-> "write", parity |-> "E",
                       data |-> <<16, 123, primary_address, (123 + primary_address) % 256, 22>>]
      [] OTHER -> [op |-> "read", data |-> <<>>, parity |-> "E"]

IsWakeData(d) == d # <<>> /\ \A k \in 1..Len(d) : d[k] = 85

\* C10: in every read_data call, also one that finds the handle open with
\* parity EVEN, the port operations are, in order: parity NONE, reset input,
\* reset output, writes of 0x55 bytes only, parity EVEN, reset input, SND_NKE,
\* REQ_UD2, the collect reads; a call that returns values has gone through all
\* of them; no 0x55 byte is written under parity EVEN and no request frame
\* under parity NONE.
C10_TransactionOrder ==
    /\ \E n \in 0..Len(PortOps) :
          /\ \A k \in 1..Len(PortOps) : PortOps[k] = Expected(k, n)
          /\ result.kind = "returned" => n >= 1 /\ Len(PortOps) >= 8 + n
    /\ \A k \in 1..Len(ops) :
          ops[k].op = "write" =>
              IF IsWakeData(ops[k].data) THEN ops[k].parity = "N"
              ELSE ops[k].parity = "E"

\* a call that found the handle open with parity EVEN has returned values
C10_Witness ==
    /\ found = "E"
    /\ pc = "idle"
    /\ result.kind = "returned"
    /\ NumOps("read") >= 1

\* --------------------------------------------------- framer: claims C1..C4
Buf == parts.pre \o parts.mid \o parts.suf
Scanned == frames # <<>> \/ fdone       \* find_next_frame has run on Buf
\* offset in Buf of the first frame returned (valid while Len(frames) = 1)
FirstStart == Len(Buf) - Len(work) - Len(frames[1])

\* the three frame shapes, stated from the data model and not from the code
IsAckFrame(f) == f = <<229>>
IsShortFrame(f) ==
    Len(f) = 5 /\ f[1] = 16 /\ f[5] = 22 /\ f[4] = (f[2] + f[3]) % 256
IsLongFrame(f) ==
    /\ Len(f) >= 6
    /\ f[1] = 104 /\ f[4] = 104 /\ f[Len(f)] = 22
    /\ f[2] = f[3]
    /\ Len(f) = 6 + f[2]
    /\ f[Len(f) - 1] = SumBytes(SubSeq(f, 5, 4 + f[2])) % 256
\* a Long frame carries C, A and CI, so L >= 3
ValidFrame(f) == IsAckFrame(f) \/ IsShortFrame(f) \/ (IsLongFrame(f) /\ f[2] >= 3)
LooseFrame(f) == IsAckFrame(f) \/ IsShortFrame(f) \/ IsLongFrame(f)
\* a valid frame starts at offset j of b and completes inside b
FrameValidatesAt(b, j) ==
    \E n \in 1..(Len(b) - j) : ValidFrame(SubSeq(b, j + 1, j + n))
LooseValidatesAt(b, j) ==
    \E n \in 1..(Len(b) - j) : LooseFrame(SubSeq(b, j + 1, j + n))
NoFrameStartsBefore(b, k) == \A j \in 0..(k - 1) : ~FrameValidatesAt(b, j)

\* C1 as stated: for a valid frame f, any suffix and any prefix in which
\* find_next_frame finds no frame, find_next_frame(prefix + f + suffix)
\* returns exactly (f, suffix).
C1_AsStated ==
    (ValidFrame(parts.mid) /\ ~find_next_frame(parts.pre).found /\ Scanned)
        => /\ frames # <<>>
           /\ frames[1] = parts.mid
           /\ (Len(frames) = 1 => work = parts.suf)

\* C1 amended: for a valid frame f (Long with L >= 3), any suffix and any
\* prefix none of whose positions starts a frame that validates within
\* prefix + f + suffix, find_next_frame returns exactly (f, suffix).
C1_Resync ==
    (ValidFrame(parts.mid) /\ NoFrameStartsBefore(Buf, Len(parts.pre)) /\ Scanned)
        => /\ frames # <<>>
           /\ frames[1] = parts.mid
           /\ (Len(frames) = 1 => work = parts.suf)

\* scenario S10: FF FF 10 40 FE 3E 16 AA gives the Short frame and leaves AA
C1_Witness ==
    /\ parts = [pre |-> <<255, 255>>, mid |-> <<16, 64, 254, 62, 22>>, suf |-> <<170>>]
    /\ frames = << <<16, 64, 254, 62, 22>> >>
    /\ work = <<170>>

\* C2 as stated: for every byte sequence g and valid frame f, the frame
\* returned by find_next_frame(g + f) is f.
C2_AsStated ==
    (ValidFrame(parts.mid) /\ parts.suf = <<>> /\ Scanned)
        => (frames # <<>> /\ frames[1] = parts.mid)

\* C2 amended: find_next_frame(g + f) returns f when no position of g starts
\* a frame that validates within g + f; otherwise the frame it returns
\* starts inside g.
C2_Garbage ==
    (ValidFrame(parts.mid) /\ parts.suf = <<>> /\ Scanned)
        => /\ frames # <<>>
           /\ Len(frames) = 1 =>
                IF NoFrameStartsBefore(Buf, Len(parts.pre))
                THEN frames[1] = parts.mid /\ work = <<>>
                ELSE FirstStart < Len(parts.pre)

\* garbage holding two failed frame starts, then a Long frame
C2_Witness ==
    /\ parts = [pre |-> <<104, 16>>, mid |-> LongFrame(<<8, 254, 114>>), suf |-> <<>>]
    /\ frames = << LongFrame(<<8, 254, 114>>) >>
    /\ fdone

\* C3: every frame find_next_frame returns is the byte E5, or 10 C A CS 16
\* with CS = (C+A) mod 256, or 68 L L 68 ... CS 16 of length 6+L with CS the
\* sum mod 256 of the L bytes after the second 68.
C3_ReturnedFramesValid ==
    \A k \in 1..Len(frames) : LooseFrame(frames[k])

\* a Long candidate with a wrong checksum was in the buffer and was skipped
\* while a frame before it was returned
C3_Witness ==
    /\ parts.mid = LongBytes(3, 3, 104, <<8, 254, 114>>, 121, 22)
    /\ frames = << <<229>> >>
    /\ fdone

\* the Long candidate that C4 describes, at offset i of b
C4_Candidate(b, i) ==
    /\ i + 6 <= Len(b)
    /\ b[i + 1] = 104
    /\ LET L == b[i + 2]
       IN  /\ i + 6 + L <= Len(b)
           /\ b[i + 3] = L
           /\ b[i + 4] = 104
           /\ b[i + 5 + L + 1] = 22
           /\ b[i + 4 + L + 1] = SumBytes(SubSeq(b, i + 5, i + 4 + L)) % 256
C4_Returned(b, i) ==
    /\ frames # <<>>
    /\ frames[1] = SubSeq(b, i + 1, i + 6 + b[i + 2])
    /\ (Len(frames) = 1 => work = SubSeq(b, i + 6 + b[i + 2] + 1, Len(b)))

\* C4 as stated: for every L in 0..255, such a candidate with no frame
\* validating at an earlier position is returned as a Long frame, with the
\* bytes after it as remainder.
C4_AsStated ==
    Scanned =>
        \A i \in 0..(Len(Buf) - 1) :
            (C4_Candidate(Buf, i) /\ \A j \in 0..(i - 1) : ~LooseValidatesAt(Buf, j))
                => C4_Returned(Buf, i)

\* C4 amended: the same for every L in 3..255 (a candidate with L < 3 has
\* no room for C, A, CI and is skipped).
C4_LongReturned ==
    Scanned =>
        \A i \in 0..(Len(Buf) - 1) :
            (C4_Candidate(Buf, i) /\ Buf[i + 2] >= 3 /\ NoFrameStartsBefore(Buf, i))
                => C4_Returned(Buf, i)

\* a Long frame with L = 4 behind a failed start, with a byte after it
C4_Witness ==
    /\ parts = [pre |-> <<104>>, mid |-> LongFrame(<<8, 254, 114, 15>>), suf |-> <<170>>]
    /\ frames = << LongFrame(<<8, 254, 114, 15>>) >>
    /\ work = <<170>>

\* --------------------------------------------------- parser: claims C5..C9
Payload == SubSeq(pfr, 8, Len(pfr) - 2)      \* the L - 3 bytes after CI
RecBase == IF Len(Payload) >= 12 THEN 12 ELSE 0
RecStream == SubSeq(Payload, RecBase + 1, Len(Payload))
Recs == parsed.records
IsSpecialRec(r) == "special" \in DOMAIN r
Dl(r) == r.DIF % 16
\* offset in the record stream of the first byte after DIF, DIFEs, VIF, VIFEs
DataPos(r) == r.ofs + 1 + Len(r.DIFEs) + 1 + Len(r.VIFEs)
\* the data sizes of the table of spec 4.3
TableSize(dl) ==
    CASE dl \in {1, 2, 3, 4} -> dl
      [] dl = 6 -> 6
      [] dl = 7 -> 8
      [] dl = 5 -> 4
      [] dl \in {9, 10, 11, 12} -> dl - 8
      [] dl = 14 -> 6
      [] OTHER -> 0
\* the record's data read (its table size, or its LVAR length byte and the
\* bytes that byte announces) passes the end of the record stream
DataReadPassesEnd(r) ==
    IF Dl(r) = 13
    THEN \/ DataPos(r) >= Len(RecStream)
         \/ DataPos(r) + 1 + RecStream[DataPos(r) + 1] > Len(RecStream)
    ELSE DataPos(r) + TableSize(Dl(r)) > Len(RecStream)
\* the LVAR length byte the parser read for r, if it read one
LvarByte(r) ==
    IF Dl(r) = 13 /\ DataPos(r) < Len(RecStream)
    THEN <<RecStream[DataPos(r) + 1]>> ELSE <<>>
IsPrefixOf(a, b) == Len(a) <= Len(b) /\ a = SubSeq(b, 1, Len(a))

\* C5: parse_long_frame returns without raising for every frame accepted by
\* mbus_checksum_ok, whatever its payload.
C5_ParseTotal == parsed.done => ~parsed.raised

\* a payload under 12 bytes that ends inside a DIFE chain
C5_Witness ==
    /\ parsed.done
    /\ Payload = <<130, 128>>
    /\ ~parsed.raised /\ parsed.records = <<>> /\ parsed.fixed = <<>>

\* C6: when a record's data read would pass the end of the record stream,
\* parsing ends at that record and no further record is emitted after it.
C6_StopsAtTruncation ==
    parsed.done =>
        \A k \in 1..Len(Recs) :
            (~IsSpecialRec(Recs[k]) /\ DataReadPassesEnd(Recs[k])) => k = Len(Recs)

Encode(r) ==
    IF IsSpecialRec(r) THEN <<r.special>>
    ELSE <<r.DIF>> \o r.DIFEs \o <<r.VIF>> \o r.VIFEs \o r.raw
EncodeWithLvar(r) ==
    IF IsSpecialRec(r) THEN <<r.special>>
    ELSE <<r.DIF>> \o r.DIFEs \o <<r.VIF>> \o r.VIFEs \o LvarByte(r) \o r.raw
RECURSIVE EncodeAll(_)
EncodeAll(rs) == IF rs = <<>> THEN <<>> ELSE Encode(Head(rs)) \o EncodeAll(Tail(rs))
RECURSIVE EncodeAllWithLvar(_)
EncodeAllWithLvar(rs) ==
    IF rs = <<>> THEN <<>> ELSE EncodeWithLvar(Head(rs)) \o EncodeAllWithLvar(Tail(rs))

\* C7 as stated: the DIF, DIFEs, VIF, VIFEs and raw bytes of the returned
\* records, concatenated in order (a special record giving its DIF byte),
\* are a prefix of the record stream.
C7_AsStated == parsed.done => IsPrefixOf(EncodeAll(Recs), RecStream)

\* C7 amended: they are a prefix of the record stream once the LVAR length
\* byte the parser consumed for a record with dl = D, which is not part of
\* raw, is put back before that record's raw bytes.
C7_EncodePrefix == parsed.done => IsPrefixOf(EncodeAllWithLvar(Recs), RecStream)

\* an LVAR record of two bytes followed by a one-byte integer record
C7_Witness ==
    /\ parsed.done
    /\ RecStream = <<13, 6, 2, 1, 6, 1, 6, 1>>
    /\ Len(Recs) = 2
    /\ Recs[1].raw = <<1, 6>> /\ Recs[2].ofs = 5

\* the value of raw as an unsigned little-endian integer
RECURSIVE LEValue(_, _)
LEValue(raw, k) ==
    IF k > Len(raw) THEN 0
    ELSE (IF raw[k] = 0 THEN 0 ELSE raw[k] * 256 ^ (k - 1)) + LEValue(raw, k + 1)
\* the value of raw as packed BCD, two decimal digits per byte
IsBcd(raw) == \A k \in 1..Len(raw) : raw[k] % 16 <= 9 /\ raw[k] \div 16 <= 9
RECURSIVE BcdValue(_, _)
BcdValue(raw, k) ==
    IF k > Len(raw) THEN 0
    ELSE (IF raw[k] = 0 THEN 0
          ELSE ((raw[k] % 16) + 10 * (raw[k] \div 16)) * 100 ^ (k - 1))
            + BcdValue(raw, k + 1)

\* the record took exactly the data bytes its dl fixes, with the value kind
\* of its dl
C8_Exact(r) ==
    LET dl == Dl(r)
        p == DataPos(r)
    IN  CASE dl \in {1, 2, 3, 4, 6, 7} ->
                /\ r.raw = Slice(RecStream, p, p + TableSize(dl))
                /\ Len(r.raw) = TableSize(dl)
                /\ r.value = [kind |-> "int", v |-> LEValue(r.raw, 1)]
          [] dl = 5 ->
                /\ r.raw = Slice(RecStream, p, p + 4)
                /\ Len(r.raw) = 4
                /\ r.value.kind = "float"
          [] dl \in {9, 10, 11, 12, 14} ->
                /\ r.raw = Slice(RecStream, p, p + TableSize(dl))
                /\ Len(r.raw) = TableSize(dl)
                /\ r.value.kind = "int"
                /\ IsBcd(r.raw) => r.value.v = BcdValue(r.raw, 1)
          [] dl = 13 ->
                /\ p < Len(RecStream)
                /\ Len(r.raw) = RecStream[p + 1]
                /\ r.raw = Slice(RecStream, p + 1, p + 1 + RecStream[p + 1])
                /\ r.value = [kind |-> "bytes", v |-> r.raw]
          [] OTHER -> r.raw = <<>> /\ r.value = [kind |-> "none"]
\* the next record starts right after the bytes the record consumed
C8_NextStart(k) ==
    k < Len(Recs) =>
        Recs[k + 1].ofs =
            IF IsSpecialRec(Recs[k]) THEN Recs[k].ofs + 1
            ELSE DataPos(Recs[k]) + Len(LvarByte(Recs[k])) + Len(Recs[k].raw)

\* C8 as stated: every emitted record consumed the data bytes fixed by its
\* dl (1,2,3,4,6,8 unsigned; 4 float; 1,2,3,4,6 BCD; length byte plus LVAR
\* bytes; none and no value for dl 0, 8, F).
C8_AsStated ==
    parsed.done =>
        \A k \in 1..Len(Recs) :
            ~IsSpecialRec(Recs[k]) => C8_Exact(Recs[k])

\* C8 amended: every emitted record consumed the data bytes fixed by its dl,
\* or, when that read would pass the end of the record stream, no data byte
\* (for dl D only the length byte, when there is one) and its value is absent.
C8_DataByDl ==
    parsed.done =>
        \A k \in 1..Len(Recs) :
            /\ C8_NextStart(k)
            /\ ~IsSpecialRec(Recs[k]) =>
                 IF DataReadPassesEnd(Recs[k])
                 THEN Recs[k].raw = <<>> /\ Recs[k].value = [kind |-> "none"]
                 ELSE C8_Exact(Recs[k])

\* an 8-byte integer record read in full, then a 4-byte BCD record cut
\* after two data bytes
C8_Witness ==
    /\ parsed.done
    /\ RecStream = <<7, 6, 1, 6, 42, 0, 0, 0, 0, 0, 12, 20, 82, 99>>
    /\ Len(Recs) >= 2
    /\ Recs[1].value = [kind |-> "int", v |-> 2754049]
    /\ Recs[2].value = [kind |-> "none"]

\* C9: a fixed header is decoded exactly when the payload has at least 12
\* bytes, from its first 12 bytes, and the records are then read from
\* payload offset 12; a shorter payload gives no header and is walked whole.
C9_HeaderSplit ==
    parsed.done =>
        /\ (parsed.fixed # <<>>) <=> (Len(Payload) >= 12)
        /\ parsed.fixed # <<>> =>
            /\ Len(parsed.fixed) = 1
            /\ parsed.fixed[1].version = Payload[7]
            /\ parsed.fixed[1].medium = Payload[8]
            /\ parsed.fixed[1].access_no = Payload[9]
            /\ parsed.fixed[1].status = Payload[10]
            /\ parsed.fixed[1].signature = Payload[11] + 256 * Payload[12]
        /\ LET base == IF Len(Payload) >= 12 THEN 12 ELSE 0
           IN  /\ \A k \in 1..Len(Recs) :
                    Payload[base + Recs[k].ofs + 1] =
                        IF IsSpecialRec(Recs[k]) THEN Recs[k].special ELSE Recs[k].DIF
               /\ Recs # <<>> => Recs[1].ofs = 0
               /\ (Len(Payload) >= base + 2 /\ Payload[base + 1] < 128) => Recs # <<>>

\* the sample header (id 22016352, manufacturer word 0x4DB4) and one record after it
C9_Witness ==
    /\ parsed.done
    /\ Payload = <<82, 99, 1, 34, 180, 77, 23, 4, 51, 0, 0, 0, 1, 6, 1>>
    /\ parsed.fixed = << [id |-> 22016352, manufacturer |-> <<83, 77, 84>>,
                          version |-> 23, medium |-> 4, access_no |-> 51,
                          status |-> 0, signature |-> 0] >>
    /\ Len(Recs) = 1 /\ Recs[1].ofs = 0 /\ Recs[1].DIF = 1

\* --------------------------------------------------- reader: claims C11..C13
\* the read window of the last call ran to its end and the buffer was parsed
WindowEnded ==
    /\ pc = "idle"
    /\ NumOps("read") >= 1
    /\ result.kind \in {"returned", "raised"}
    /\ result.kind = "raised" =>
            result.type \notin {"SerialException", "termios.error", "CancelledError"}

\* the checksum-valid Long frames (with C, A and CI) that b contains
LongFramesIn(b) ==
    { f \in { SubSeq(b, i, j) : i \in 1..Len(b), j \in 1..Len(b) } :
        IsLongFrame(f) /\ f[2] >= 3 }

\* the names the records of frame f are mapped to; a record on which the
\* mapper raises counts only among the loose names
LooseNamesOf(f) ==
    LET recs == parse_long_frame(f).records
    IN  { MappedName(recs[k]) : k \in 1..Len(recs) } \ {""}
MappedNamesOf(f) ==
    LET recs == parse_long_frame(f).records
    IN  { MappedName(recs[k]) : k \in { n \in 1..Len(recs) : MapError(recs[n]) = "" } } \ {""}
LooseNamesIn(b) == UNION { LooseNamesOf(f) : f \in LongFramesIn(b) }
MappedNamesIn(b) == UNION { MappedNamesOf(f) : f \in LongFramesIn(b) }

\* C11 as stated: whenever the collected buffer contains a checksum-valid
\* Long frame with a record the mapper maps, read_data returns a map that
\* holds that quantity under its name.
C11_AsStated ==
    WindowEnded =>
        \A name \in MappedNamesIn(rbuf) :
            result.kind = "returned" /\ name \in result.keys

\* C12 as stated: read_data fails with the no-valid-data error whenever the
\* window ends without a checksum-valid Long frame in the buffer, and whenever
\* the Long frames received yield no mapped record.
C12_AsStated ==
    (WindowEnded /\ (LongFramesIn(rbuf) = {} \/ LooseNamesIn(rbuf) = {})) =>
        result = [kind |-> "raised", type |-> "ValueError",
                  msg |-> <<"No valid data", "received from meter">>]

\* the frames the frame loop takes out of b
RECURSIVE Extracted(_)
Extracted(b) ==
    LET r == find_next_frame(b)
    IN  IF ~r.found THEN {} ELSE {r.fr} \cup Extracted(r.rest)
\* one of them is a Long frame whose payload after CI has 12 bytes or more
HeaderFrameFound(b) == \E f \in Extracted(b) : IsLongFrame(f) /\ f[2] >= 15

\* C13 as stated: every map a successful read_data returns holds the six
\* fixed-header fields.
C13_AsStated ==
    result.kind = "returned" => FIXED_KEYS \subseteq result.keys

\* C13 amended: a returned map holds the six fixed-header fields exactly when
\* one of the Long frames taken from the buffer has a payload of 12 bytes or
\* more; otherwise it holds none of them.
C13_FixedWhenHeader ==
    result.kind = "returned" =>
        IF HeaderFrameFound(rbuf) THEN FIXED_KEYS \subseteq result.keys
        ELSE FIXED_KEYS \cap result.keys = {}

\* a response with header, received in two reads, was returned with its
\* header fields and its quantities
C13_Witness ==
    /\ result.kind = "returned"
    /\ rbuf = SampleResponse
    /\ result.keys = FIXED_KEYS \cup {"volume_flow", "delta_temperature", "thermal_power"}

\* ---------------------------------------------------------- reader: claim C19
\* C19 as stated: once a pending read_data has been cancelled at a suspension
\* point, the reader's serial handle is closed or has parity NONE; it is not
\* left open with parity EVEN.
C19_AsStated ==
    (pc = "idle" /\ result.kind = "raised" /\ result.type = "CancelledError") =>
        (ser # 0 => ~(handles[ser].open /\ handles[ser].parity = "E"))

\* ------------------------------------------------------ coordinator: claim C14
RetryableEnd == update.kind = "failed" /\ update.msg \in {UF_NOT_RESPONDING, UF_NOT_UNDERSTOOD, UF_EXHAUSTED}

\* C14: one update calls read_data at most 3 times, and exactly 3 times when
\* every attempt failed with a retryable error; the sleep after failed attempt
\* k (k = 0, 1) is 2^k seconds, and no sleep follows the third failed attempt.
C14_RetrySchedule ==
    /\ nreads <= max_retries
    /\ \A k \in 1..Len(sleeps) : k <= 2 /\ sleeps[k] = 2 ^ (k - 1)
    /\ cpc = "reading" => (nreads = attempt + 1 /\ Len(sleeps) = attempt)
    /\ cpc = "backoff" => (nreads = attempt + 1 /\ Len(sleeps) = attempt + 1)
    /\ (cpc = "idle" /\ RetryableEnd) => (nreads = 3 /\ sleeps = <<1, 2>>)

\* an update whose three attempts all failed with a retryable error
C14_Witness ==
    /\ cpc = "idle"
    /\ update = UpdateFailed(UF_NOT_UNDERSTOOD)
    /\ nreads = 3
    /\ sleeps = <<1, 2>>

\* ------------------------------------------------------ coordinator: claim C15
\* a serial error whose message says the device may not be accessed or is absent
TerminalSerialError(e) ==
    /\ e.kind = "raised"
    /\ e.type = "SerialException"
    /\ Has(e.msg, EACCES) \/ Has(e.msg, ENOENT)

\* C15: when an attempt ends with a serial error whose message indicates
\* 'permission denied' or 'no such file or directory', the update fails at
\* once: it does not sleep and it does not call read_data again.
C15_TerminalErrors ==
    [][ (cpc = "reading" /\ pc = "idle" /\ TerminalSerialError(result)) =>
            /\ cpc' = "idle"
            /\ update'.kind = "failed"
            /\ sleeps' = sleeps
            /\ nreads' = nreads
            /\ pc' = "idle" ]_vars

\* an update ended by 'no such file or directory' at its second attempt
C15_Witness ==
    /\ cpc = "idle"
    /\ update = UpdateFailed(UF_NOT_FOUND)
    /\ TerminalSerialError(result)
    /\ nreads = 2
    /\ sleeps = <<1>>

\* ------------------------------------------------------ coordinator: claim C16
\* the error an update should end with when the open failed for this cause
ReportFor(c) ==
    IF c = EACCES THEN UF_PERMISSION
    ELSE IF c = ENOENT THEN UF_NOT_FOUND
    ELSE UF_SERIAL

\* C16 as stated: when opening the device failed, the error the update ends
\* with reflects the OS cause: permission denied, device not found, or a
\* transport error for any other cause.
C16_AsStated ==
    (cpc = "idle" /\ update.kind = "failed" /\ cause # "") =>
        update.msg = ReportFor(cause)

\* ------------------------------------------------------ coordinator: claim C17
\* a serial error whose message says 'input/output error'
IoSerialError(e) ==
    /\ e.kind = "raised"
    /\ e.type = "SerialException"
    /\ Has(e.msg, EIO)

NoneOpen(hs) == \A k \in 1..Len(hs) : ~hs[k].open

\* C17: after an attempt failed with an 'input/output error' and attempts
\* remain, the reader's handle is closed before the next attempt, and the next
\* attempt opens the device again before it writes any wakeup byte.
C17_ReopenAfterIoError ==
    /\ [](cpc = "backoff" /\ IoSerialError(last_exception) =>
            ser = 0 /\ NoneOpen(handles))
    /\ [][ (cpc = "backoff" /\ IoSerialError(last_exception) /\ pc' # "idle") =>
            /\ found' = "none"
            /\ Len(handles') = Len(handles) + 1
            /\ ser' = Len(handles')
            /\ handles'[ser'].open
            /\ \A k \in 1..Len(ops') : ops'[k].op # "write" ]_vars

\* the second attempt, after an I/O error, on a handle it has just opened
C17_Witness ==
    /\ cpc = "reading"
    /\ attempt = 1
    /\ IoSerialError(last_exception)
    /\ pc = "wake_write"
    /\ found = "none"
    /\ Len(handles) = 2
    /\ ~handles[1].open
    /\ ser = 2
    /\ handles[2].open

\* ------------------------------------------------------ second task: claim C18
\* the first port operations of the second call (parity, buffer resets) lie
\* between two port operations of the first call's current transaction
Interleaved ==
    /\ at2.call = calls
    /\ 0 < at2.len
    /\ at2.len < Len(ops)

\* C18 as stated: two read_data transactions on the same MBusReader never
\* overlap: no port operation of one lies between port operations of the
\* other, also when the second call starts while the first is suspended.
C18_AsStated == ~Interleaved

\* --------------------------------------------------- validate_input: claim C20
OpenHandles == { k \in 1..Len(handles) : handles[k].open }

\* C20 as stated: at any time at most one reader holds an open handle on the
\* device path; validate_input's own reader never has the device open while
\* the coordinator's reader has it open.
C20_AsStated == Cardinality(OpenHandles) <= 1

\* ------------------------------------------------- record_to_human: claim C22
Mapped == arg.fn = "record_to_human" /\ ret.done
IntRecord == "value" \in DOMAIN arg.r /\ arg.r.value.kind = "int"

\* C22: for every integer value, VIF 0x14 maps to volume_total (value / 100,
\* m3) and VIF 0x27 to operating_time_days (value unchanged, days); neither
\* is read as energy_total_J or as a scaled volume.
C22_SpecificRows ==
    (Mapped /\ IntRecord) =>
        /\ arg.r.VIF = 20 =>
              ret.out = [kind |-> "triple", name |-> "volume_total",
                         value |-> Scaled(arg.r.value, -2), unit |-> "m3"]
        /\ arg.r.VIF = 39 =>
              ret.out = [kind |-> "triple", name |-> "operating_time_days",
                         value |-> arg.r.value, unit |-> "days"]

\* the record {VIF 0x14, value 35504} mapped to volume_total 355.04 m3
C22_Witness ==
    /\ Mapped
    /\ IntRecord
    /\ arg.r.VIF = 20
    /\ arg.r.value = IntValue(35504)
    /\ ret.out.name = "volume_total"
    /\ ret.out.value = [kind |-> "scaled", e |-> -2, of |-> IntValue(35504)]

\* ------------------------------------------------- record_to_human: claim C23
\* C23 as stated: a valued record with VIF in 0x10..0x17 other than 0x14 maps
\* to energy_total_J (value x 10^(VIF & 7), J), and one with VIF in 0x20..0x26
\* to volume_total (value x 10^((VIF & 7) - 6), m3).
C23_AsStated ==
    (Mapped /\ IntRecord) =>
        /\ arg.r.VIF \in (16..23) \ {20} =>
              ret.out = [kind |-> "triple", name |-> "energy_total_J",
                         value |-> Scaled(arg.r.value, arg.r.VIF % 8), unit |-> "J"]
        /\ arg.r.VIF \in 32..38 =>
              ret.out = [kind |-> "triple", name |-> "volume_total",
                         value |-> Scaled(arg.r.value, (arg.r.VIF % 8) - 6), unit |-> "m3"]

\* ------------------------------------------------- record_to_human: claim C24
\* C24 as stated: a valued record with VIF in 0x58..0x5B maps to
\* flow_temperature (degC), in 0x5C..0x5F to return_temperature (degC) and in
\* 0x60..0x63 to delta_temperature (K), each value x 10^((VIF & 3) - 3).
C24_AsStated ==
    (Mapped /\ IntRecord) =>
        /\ arg.r.VIF \in 88..91 =>
              ret.out = [kind |-> "triple", name |-> "flow_temperature",
                         value |-> Scaled(arg.r.value, (arg.r.VIF % 4) - 3), unit |-> "degC"]
        /\ arg.r.VIF \in 92..95 =>
              ret.out = [kind |-> "triple", name |-> "return_temperature",
                         value |-> Scaled(arg.r.value, (arg.r.VIF % 4) - 3), unit |-> "degC"]
        /\ arg.r.VIF \in 96..99 =>
              ret.out = [kind |-> "triple", name |-> "delta_temperature",
                         value |-> Scaled(arg.r.value, (arg.r.VIF % 4) - 3), unit |-> "K"]

ExtRecord == IntRecord /\ arg.r.VIF = 253 /\ arg.r.VIFEs # <<>>

\* C26: for a valued record with VIF 0xFD and at least one VIFE, the result
\* depends on the first VIFE with bit 7 cleared alone: 0x0E firmware_version,
\* 0x0F software_version, 0x08 access_number, 0x09 medium_code, each with the
\* integer value and no unit; any other code gives None.
C26_ExtensionOnly ==
    (Mapped /\ ExtRecord) =>
        LET code == arg.r.VIFEs[1] % 128
            name == CASE code = 14 -> "firmware_version"
                      [] code = 15 -> "software_version"
                      [] code = 8 -> "access_number"
                      [] code = 9 -> "medium_code"
                      [] OTHER -> ""
        IN  IF name = "" THEN ret.out = [kind |-> "none"]
            ELSE ret.out = [kind |-> "triple", name |-> name,
                            value |-> arg.r.value, unit |-> ""]

\* record {VIF: 0xFD, VIFEs: [0x0E], value: 8} has been mapped to
\* (firmware_version, 8, None)
C26_Witness ==
    /\ Mapped /\ ExtRecord
    /\ arg.r.VIFEs = <<14>> /\ arg.r.value = IntValue(8)
    /\ ret.out = [kind |-> "triple", name |-> "firmware_version",
                  value |-> IntValue(8), unit |-> ""]

\* --------------------------------------------------- decode_bcd_le: claim C29
Decoded == arg.fn = "decode_bcd_le" /\ ret.done

\* the number with decimal digits ds, most significant first
RECURSIVE Number(_)
Number(ds) == IF ds = <<>> THEN 0 ELSE 10 * Number(SubSeq(ds, 1, Len(ds) - 1)) + ds[Len(ds)]

\* C29: for every k in {1, 2, 3, 4, 6} and every n below 10^(2k), decoding
\* the k-byte little-endian packed BCD of n returns n; bytes 52 63 01 22
\* decode to 22016352. Up to nine digits the digits returned are those of
\* the integer decode_bcd_le computes.
C29_BcdRoundTrip ==
    Decoded =>
        /\ \A k \in BcdSizes : \A ds \in BcdNumbers(k) :
                arg.data = encode_bcd_le(ds, k) => ret.out = ds
        /\ arg.data = <<82, 99, 1, 34>> =>
                ret.out = Decimal(22016352) /\ decode_bcd_le(arg.data) = 22016352
        /\ Len(ret.out) <= 9 => decode_bcd_le(arg.data) = Number(ret.out)

\* the six-byte encoding of 999999999999 has been decoded
C29_Witness ==
    /\ Decoded
    /\ arg.data = <<153, 153, 153, 153, 153, 153>>
    /\ ret.out = <<9, 9, 9, 9, 9, 9, 9, 9, 9, 9, 9, 9>>

\* ---------------------------------------------- man_code_from_word: claim C30
ManCoded == arg.fn = "man_code_from_word" /\ ret.done

\* C30 as stated: man_code_from_word(0x4DB4) returns "ITR".
C30_AsStated ==
    (ManCoded /\ arg.w = 19892) => ret.out = <<73, 84, 82>>

\* C30: man_code_from_word(0x4DB4) returns "SMT" (fields 19, 13, 20, each
\* plus 64); the word whose fields are those of "ITR" is 0x2692.
C30_ManCode ==
    ManCoded =>
        /\ arg.w = 19892 => ret.out = <<83, 77, 84>>
        /\ arg.w = 9874 => ret.out = <<73, 84, 82>>

\* the word 0x4DB4 has been decoded
C30_Witness ==
    /\ ManCoded /\ arg.w = 19892
    /\ ret.out = <<64 + 19, 64 + 13, 64 + 20>>

\* -------------------------------------------------- read_data: claims C21, C27, C28
ValuesReturned == arg.fn = "read_data" /\ ret.done /\ ret.out.kind = "returned"

SCHEMA_KEYS ==
    {"device_id", "manufacturer", "version", "medium", "access_no", "status",
     "energy_total", "volume_total", "volume_flow", "flow_temperature",
     "return_temperature", "delta_temperature", "thermal_power",
     "operating_time_days", "serial_number", "firmware_version",
     "software_version", "time_point"}

\* C21 as stated: every key of the map read_data returns is one of the
\* eighteen names of the output schema.
C21_AsStated ==
    ValuesReturned => DOMAIN ret.out.values \subseteq SCHEMA_KEYS

\* C21: every key of the map read_data returns is one of the eighteen names
\* of the output schema or one of access_number and medium_code; the keys are
\* those of the frame loop and the derive step.
C21_KeySet ==
    ValuesReturned =>
        /\ DOMAIN ret.out.values \subseteq SCHEMA_KEYS \cup {"access_number", "medium_code"}
        /\ DOMAIN ret.out.values = Derived(CollectKeys(arg.buf, {}).keys)

\* a response with a delta T record and an FD 08 record has been read
C21_Witness ==
    /\ ValuesReturned
    /\ arg.buf = DeltaAndAccess
    /\ DOMAIN ret.out.values = {"delta_temperature", "access_number"}

\* the triples of the mapped records of the checksum-valid Long frames of b,
\* in buffer order
TriplesOf(recs) ==
    SelectSeq([k \in 1..Len(recs) |-> record_to_human(recs[k])],
              LAMBDA h : h.kind = "triple")
RECURSIVE TriplesIn(_)
TriplesIn(b) ==
    LET r == find_next_frame(b)
    IN  IF ~r.found THEN <<>>
        ELSE (IF IsLongFrame(r.fr) THEN TriplesOf(parse_long_frame(r.fr).records) ELSE <<>>)
                \o TriplesIn(r.rest)

\* the position of the last triple named name, 0 when there is none
LastOf(T, name) ==
    IF \E i \in 1..Len(T) : T[i].name = name
    THEN CHOOSE i \in 1..Len(T) :
            T[i].name = name /\ \A j \in (i + 1)..Len(T) : T[j].name # name
    ELSE 0

\* C27: the map read_data returns holds thermal_power exactly when it holds
\* volume_flow and delta_temperature with values that are not None, and then
\* thermal_power is 1.163 x flow x delta T in kW, flow and delta T being the
\* values of the last flow record and the last delta T record of the buffer.
C27_ThermalPower ==
    ValuesReturned =>
        LET m == ret.out.values
            T == TriplesIn(arg.buf)
            both == /\ "volume_flow" \in DOMAIN m
                    /\ "delta_temperature" \in DOMAIN m
                    /\ m["volume_flow"].value # NoValue
                    /\ m["delta_temperature"].value # NoValue
            f == T[LastOf(T, "volume_flow")].value
            d == T[LastOf(T, "delta_temperature")].value
        IN  /\ "thermal_power" \in DOMAIN m <=> both
            /\ both =>
                  /\ m["thermal_power"].unit = "kW"
                  /\ m["thermal_power"].value =
                        [kind |-> "scaled", e |-> f.e + d.e - 3,
                         of |-> IntValue(1163 * f.of.v * d.of.v)]

\* flow 0.295 then 0.07 then 0.012 m3/h and delta T 9.35 K have been read:
\* thermal_power is 1.163 x 0.012 x 9.35 kW
C27_Witness ==
    /\ ValuesReturned
    /\ arg.buf = SampleResponse \o TwoFlows
    /\ "thermal_power" \in DOMAIN ret.out.values
    /\ ret.out.values["thermal_power"] =
            Entry([kind |-> "scaled", e |-> -8, of |-> IntValue(1163 * 12 * 935)], "kW")

\* C28: when several mapped records of the buffer carry the same name, in one
\* Long frame or in several, the map read_data returns holds under that name
\* the value and unit of the record that comes last in the buffer.
C28_LastWins ==
    ValuesReturned =>
        LET T == TriplesIn(arg.buf)
        IN  \A i \in 1..Len(T) :
                (\A j \in (i + 1)..Len(T) : T[j].name # T[i].name) =>
                    /\ T[i].name \in DOMAIN ret.out.values
                    /\ ret.out.values[T[i].name] = Entry(T[i].value, T[i].unit)

\* three flow records with different values, two of them in one frame, have
\* been read and the value of the third is returned
C28_Witness ==
    /\ ValuesReturned
    /\ arg.buf = SampleResponse \o TwoFlows
    /\ LET T == TriplesIn(arg.buf)
       IN  /\ Cardinality({ i \in 1..Len(T) : T[i].name = "volume_flow" }) = 3
           /\ ret.out.values["volume_flow"].value = T[Len(T)].value
           /\ T[Len(T)].value = [kind |-> "scaled", e |-> -3, of |-> IntValue(12)]

\* ------------------------------------------------------ short_frame: claim C31
ShortFramed == arg.fn = "short_frame" /\ ret.done

\* C31: for every control byte C and address A in 0..255, short_frame(C, A)
\* is the five bytes 10 C A ((C + A) mod 256) 16, and find_next_frame on
\* those bytes returns them as the frame and an empty remainder.
C31_ShortRoundTrip ==
    ShortFramed =>
        /\ Len(ret.out) = 5
        /\ ret.out[1] = 16 /\ ret.out[2] = arg.ctrl /\ ret.out[3] = arg.addr
        /\ ret.out[4] \in 0..255
        /\ (arg.ctrl + arg.addr - ret.out[4]) \in {0, 256}
        /\ ret.out[5] = 22
        /\ ret.scan = [found |-> TRUE, fr |-> ret.out, rest |-> <<>>]

\* 10 40 FE 3E 16, the driver's own SND_NKE to address 0xFE, has been built
\* (its checksum wraps) and found
C31_Witness ==
    /\ ShortFramed
    /\ arg.ctrl = 64 /\ arg.addr = 254
    /\ ret.out = <<16, 64, 254, 62, 22>>
    /\ ret.scan.found /\ ret.scan.fr = ret.out

\* -------------------------------------------------- find_next_frame: claim C32
\* some position of b starts a valid frame that completes inside b
SomeFrameIn(b) == \E j \in 0..(Len(b) - 1) : FrameValidatesAt(b, j)

\* C32: find_next_frame returns no frame exactly when no position of the
\* buffer starts a valid Ack, Short or Long frame that completes inside the
\* buffer, and then the remainder it returns is the buffer, unchanged.
C32_NoFrameUnchanged ==
    [][ /\ (~fdone /\ fdone') => (~SomeFrameIn(work) /\ work' = work /\ frames' = frames)
        /\ (~fdone /\ ~fdone') => (SomeFrameIn(work) /\ Len(frames') = Len(frames) + 1) ]_vars

\* a Short frame cut before its stop byte, after one byte of garbage: no
\* frame was returned and the buffer is whole
C32_Witness ==
    /\ parts.pre = <<255>> /\ parts.mid = <<16, 64, 254, 62>> /\ parts.suf = <<>>
    /\ fdone /\ frames = <<>>
    /\ work = <<255, 16, 64, 254, 62>>

\* ------------------------------------------------- record_to_human: claim C33
\* C33 as stated: record_to_human never raises on a record parse_long_frame
\* can produce: it returns a triple or None.
C33_AsStated ==
    Mapped => ret.out.kind \in {"triple", "none"}

\* ------------------------------------------------ parse_long_frame: claim C34
\* a continuation chain after the byte first: none when bit 7 of first is
\* clear, otherwise bytes with bit 7 set up to a last one with bit 7 clear
ChainComplete(first, chain) ==
    /\ chain = <<>> <=> first < 128
    /\ chain # <<>> =>
          /\ \A i \in 1..(Len(chain) - 1) : chain[i] >= 128
          /\ chain[Len(chain)] < 128

\* C34 as stated: in every non-special record parse_long_frame emits both
\* chains are complete; a record whose DIFE or VIFE chain is cut by the end
\* of the stream is not emitted.
C34_AsStated ==
    (parsed.done /\ ~parsed.raised) =>
        \A k \in 1..Len(parsed.records) :
            "special" \notin DOMAIN parsed.records[k] =>
                /\ ChainComplete(parsed.records[k].DIF, parsed.records[k].DIFEs)
                /\ ChainComplete(parsed.records[k].VIF, parsed.records[k].VIFEs)

\* ------------------------------------------------------- read_data: claim C35
\* a read_data call that was suspended in its transaction ends in this step
TransactionEnds == pc # "idle" /\ pc' = "idle"

\* C35 as stated: whenever read_data raises from inside the transaction, the
\* handle it used is closed and the reader's reference is cleared; after a
\* successful read_data the handle stays open.
C35_AsStated ==
    [][ TransactionEnds =>
            IF result'.kind = "raised"
            THEN ser' = 0 /\ (ser # 0 => ~handles'[ser].open)
            ELSE ser' = ser /\ ser # 0 /\ handles'[ser].open ]_vars

\* ------------------------------------------------------ MBusReader: claim C36
\* C36 as stated: over any sequence of connect, read_data and disconnect
\* calls on one reader, at most one handle it opened is open at any time,
\* a handle being closed before the reader replaces or drops its reference:
\* an open handle is the one the reader refers to.
C36_AsStated ==
    \A k \in 1..Len(handles) : handles[k].open => k = ser

\* ------------------------------------------------------- read_data: claim C37
\* an iteration that gets a frame leaves a working buffer that is a proper
\* suffix of the one before, shorter by the frame at least; an iteration
\* that gets none is the last
LoopStep ==
    /\ Len(frames') > Len(frames) =>
          /\ Len(work') < Len(work)
          /\ Len(work') <= Len(work) - Len(frames'[Len(frames')])
          /\ work' = SubSeq(work, Len(work) - Len(work') + 1, Len(work))
          /\ ~fdone'
    /\ Len(frames') = Len(frames) => (fdone' /\ ~fdone /\ work' = work)
LoopSteps == [][LoopStep]_vars

\* C37: the frame loop of read_data terminates for every collected buffer:
\* every iteration that gets a frame shortens the working buffer, the loop
\* exits as soon as no frame is returned, and it does reach that exit.
C37_LoopTerminates == LoopSteps /\ <>fdone

\* two Acks and a Short frame cut before its stop byte: two iterations got
\* a frame, the third got none and ended the loop
C37_Witness ==
    /\ parts = [pre |-> <<229, 229>>, mid |-> <<16, 64, 254, 62>>, suf |-> <<>>]
    /\ frames = << <<229>>, <<229>> >>
    /\ work = <<16, 64, 254, 62>>
    /\ fdone

\* ------------------------------------------------- record_to_human: claim C38
SerialRecord == IntRecord /\ arg.r.VIF = 120

\* C38 as stated: for every record with VIF 0x78 and an integer value the
\* mapped serial_number is a decimal string of exactly 8 characters.
C38_AsStated ==
    (Mapped /\ SerialRecord) =>
        /\ ret.out.kind = "triple" /\ ret.out.name = "serial_number"
        /\ ret.out.value.kind = "str" /\ Len(ret.out.value.chars) = 8

\* C38: for every record with VIF 0x78 and an integer value n the mapped
\* serial_number is the decimal text of n, with zeros on the left up to 8
\* characters: exactly 8 characters when n < 10^8, and the 9 or more digits
\* of n, unpadded, otherwise.
C38_SerialText ==
    (Mapped /\ SerialRecord) =>
        LET n == arg.r.value.v
            chars == ret.out.value.chars
        IN  /\ ret.out.kind = "triple" /\ ret.out.name = "serial_number"
            /\ ret.out.unit = ""
            /\ ret.out.value.kind = "str"
            /\ \A k \in 1..Len(chars) : chars[k] \in 48..57
            /\ TextInt(chars) = n
            /\ Len(chars) >= 8
            /\ Len(chars) = 8 <=> n < 100000000
            /\ Len(chars) > 8 => chars[1] # 48

\* the record 04 78 52 63 01 22, an unsigned integer, has been mapped to the
\* nine characters 570516306
C38_Witness ==
    /\ Mapped /\ SerialRecord
    /\ arg.r.DIF = 4 /\ arg.r.value = IntValue(570516306)
    /\ ret.out.value.chars = <<53, 55, 48, 53, 49, 54, 51, 48, 54>>

\* ------------------------------------------------- validate_input: claim C39
\* validate_input has ended after its read_data returned a readout
ReadoutObtained == vpc = "idle" /\ vdata.read.kind = "returned"

\* C39 as stated: validate_input raises DeviceNotResponding when the readout
\* it obtained contains neither a device_id nor a serial_number, and raises
\* CannotConnect only when the connection or the read itself failed.
C39_AsStated ==
    /\ (/\ ReadoutObtained
        /\ "device_id" \notin DOMAIN vdata.read.values
        /\ "serial_number" \notin DOMAIN vdata.read.values)
            => vresult = Raised("DeviceNotResponding", <<>>)
    /\ (vpc = "idle" /\ vresult = Raised("CannotConnect", <<>>))
            => vdata.read.kind # "returned"

\* ------------------------------------------------- validate_input: claim C40
\* texts that are no decimal and no 0x-hex number, or a number outside
\* 0..255: "256", "0x100", "-1", "", "abc", "0x", "0xZZ", "0XFE", "12a"
RejectedTexts ==
    { <<50, 53, 54>>, <<48, 120, 49, 48, 48>>, <<45, 49>>, <<>>, <<97, 98, 99>>,
      <<48, 120>>, <<48, 120, 90, 90>>, <<48, 88, 70, 69>>, <<49, 50, 97>> }

\* the ways validate_input ends once it has a reader
ReaderOutcomes ==
    { Raised(t, <<>>) : t \in {"CannotConnect", "PermissionDenied", "USBNotFound",
                               "DeviceNotResponding", "CancelledError"} }

\* validate_input is called
ValidationBegins == validations' = validations + 1

\* a call with a rejected address raises InvalidPrimaryAddress at once and
\* opens nothing, and InvalidPrimaryAddress is raised by no other call
RejectedOpensNothing ==
    /\ (ValidationBegins /\ vdata'.address \in RejectedTexts) =>
            /\ vresult' = Raised("InvalidPrimaryAddress", <<>>)
            /\ vpc' = "idle" /\ vser' = 0
            /\ handles' = handles
    /\ (ValidationBegins /\ vresult' = Raised("InvalidPrimaryAddress", <<>>)) =>
            /\ ~ParseInt(vdata'.address, 10).ok \/ ParseInt(vdata'.address, 10).v \notin 0..255
            /\ handles' = handles
    /\ vresult' = Raised("InvalidPrimaryAddress", <<>>) => ValidationBegins \/ UNCHANGED vars

\* C40: once validate_input has created its reader, every way it finishes
\* (the device info returned, any of its errors raised, the task cancelled)
\* leaves the reader without handle and no handle open, and while it runs
\* only its reader's handle is open; a call whose address is rejected
\* creates no reader and opens nothing.
C40_ReaderClosed ==
    /\ [](/\ \A k \in 1..Len(handles) : handles[k].open => (k = vser /\ vpc # "idle")
          /\ vpc = "idle" => vser = 0
          /\ vpc = "idle" /\ validations > 0 =>
                \/ vresult.kind = "returned" /\ Len(handles) > 0
                \/ vresult \in ReaderOutcomes
                \/ vresult = Raised("InvalidPrimaryAddress", <<>>))
    /\ [][RejectedOpensNothing]_vars

\* "0xFE" was accepted, the port opened and the sample response read: the
\* device info is returned and the one handle, last set to even parity, is
\* closed
C40_Witness ==
    /\ vpc = "idle" /\ vser = 0
    /\ vdata.address = <<48, 120, 70, 69>>
    /\ vresult.kind = "returned" /\ vresult.primary_address = 254
    /\ vresult.device_id = IntValue(22016352)
    /\ handles = << [open |-> FALSE, parity |-> "E"] >>

====
